---- MODULE Spec2Model ----
(***************************************************************************)
(* Data-access core of memory-trails-app: the retry executor of            *)
(* BaseService and the paginated record lists built on it.                 *)
(*                                                                         *)
(*   SpecRetry  one request of the entity client, from the service method  *)
(*              to its terminal outcome (BaseService).                     *)
(*   SpecDiary  the diary page with the signal state and the               *)
(*              appInfiniteScroll directive (loadRecords).                 *)
(*   SpecPage   the diary page with allRecords / filteredRecords and the   *)
(*              window scroll listener (_loadInitialRecords,               *)
(*              _loadMoreRecords).                                         *)
(***************************************************************************)
EXTENDS Integers, Sequences, FiniteSets, TLC

(***************************************************************************)
(* Bounds.                                                                 *)
(***************************************************************************)
\* environment.retryAttempts ranges over 0..MaxRetryAttempts
MaxRetryAttempts == 3
\* environment.retryDelay ranges over 1..MaxRetryDelay
MaxRetryDelay == 2
\* record ids are 1..MaxItemId
MaxItemId == 2
\* page numbers requested are 1..MaxPage
MaxPage == 2
\* list requests outstanding at once on the diary page are capped here
MaxInflight == 2
\* favorite mutations outstanding at once on a diary page are capped here
MaxUpdates == 2
\* the backend of the records list holds 0..MaxTotal records
MaxTotal == 14
\* DriveApi requests sent over the life of the photos screen are capped here
MaxCalls == 4
\* the data source of the lazy-load list holds 0..MaxLazyTotal records
MaxLazyTotal == 3
\* onLoadMore events emitted over the life of the lazy-load list are capped here
MaxLazyEmits == 4

VARIABLES
  retryAttempts,  \* BaseService.retryAttempts (environment.retryAttempts)
  retryDelay,     \* BaseService.retryDelay (environment.retryDelay)
  rOp,            \* the entity-client operation being executed, "none" before
  rPhase,         \* "idle" | "inflight" | "backoff" | "done"
  rAttempt,       \* the `attempt` argument of the running _executeWithRetry
  rCalls,         \* transport calls made (subscriptions to requestFn())
  rHistory,       \* statuses the transport answered, in order
  rDelays,        \* timer(delay) values waited, in order
  rDelivered,     \* terminal outcomes delivered to the subscriber, in order
  rSaved          \* number of _downloadBlob side effects

varsRetry == <<retryAttempts, retryDelay, rOp, rPhase, rAttempt, rCalls,
               rHistory, rDelays, rDelivered, rSaved>>

VARIABLES
  backendFav,         \* ids the backend holds as favorite
  records,            \* DiaryPageComponent.records
  loading,            \* DiaryPageComponent.loading
  hasMore,            \* DiaryPageComponent.hasMore
  error,              \* DiaryPageComponent.error, NoError for null
  currentPage,        \* DiaryPageComponent.currentPage
  showOnlyFavorites,  \* DiaryPageComponent.showOnlyFavorites
  dMounted,           \* ngOnInit has run
  dInflight,          \* list requests subscribed and not yet settled
  dEvents,            \* the last two handlers that ran (history variable)
  dApiError           \* the IApiError catchError received in the last step
                      \* and the page that was requested, NoApiError when the
                      \* last step was no failure (history variable)

varsDiaryState == <<records, loading, hasMore, error, currentPage, showOnlyFavorites>>

varsDiary == <<backendFav, varsDiaryState, dMounted, dInflight, dEvents, dApiError>>

VARIABLES
  pageFav,               \* ids the backend holds as favorite
  pShowOnlyFavorites,    \* DiaryPageComponent.showOnlyFavorites
  allRecords,            \* DiaryPageComponent.allRecords
  filteredRecords,       \* DiaryPageComponent.filteredRecords
  isLoading,             \* DiaryPageComponent.isLoading
  hasMoreRecords,        \* DiaryPageComponent.hasMoreRecords
  paginationPage,        \* DiaryPageComponent._paginationParams.page
  paginationSize,        \* DiaryPageComponent._paginationParams.size
  pMounted,              \* ngOnInit has run
  pInflight,             \* list requests subscribed and not yet settled
  pEvent,                \* the handler that ran last (history variable)
  pLastLoaded            \* page of the last response put into allRecords, 0
                         \* when the list holds none (history variable)

varsPageState == <<pShowOnlyFavorites, allRecords, filteredRecords, isLoading,
                   hasMoreRecords, paginationPage>>

varsPage == <<pageFav, varsPageState, paginationSize, pMounted, pInflight, pEvent,
              pLastLoaded>>

VARIABLES
  dUpdates,      \* toggleFavorite requests of onFavoriteToggled not yet settled
  dListBefore,   \* records as it was before the last card click (history variable)
  pUpdates,      \* partialUpdate requests of _updateFavoriteInBackend not yet settled
  pLastFailed    \* the request whose catchError ran in the last step, if any

varsFavorite == <<dUpdates, dListBefore, pUpdates, pLastFailed>>

VARIABLES
  sConfig,        \* InfiniteScrollComponent.config (RecordsComponent.scrollConfig)
  sTotal,         \* number of records the backend holds
  sRecords,       \* RecordsComponent.records, the dataSource input
  sLoading,       \* RecordsComponent.loading, the loading input
  sHasMore,       \* RecordsComponent.hasMore, the hasMore input
  sErrorMessage,  \* RecordsComponent.errorMessage, the errorMessage input
  sState,         \* InfiniteScrollComponent._state
  sInflight,      \* getAll requests of onLoadMore not yet settled
  sMounted,       \* ngOnInit of both components has run
  sEvent,         \* the handler that ran last (history variable)
  sResponses      \* count and meta of the responses received (history variable)

varsScroll == <<sConfig, sTotal, sRecords, sLoading, sHasMore, sErrorMessage,
                sState, sInflight, sMounted, sEvent, sResponses>>

VARIABLES
  nRaw,       \* the HttpErrorResponse handed to _handleError: status and error
  nApiError   \* the IApiError _handleError threw for it, NoApiError before

varsNormalize == <<nRaw, nApiError>>

VARIABLES
  aContentType,  \* the Content-Type header of the DriveApi's apisauce instance
  aPending,      \* DriveApi calls awaiting their response, in order of issue,
                 \* each with the async function that awaits it
  aSent,         \* operation, Content-Type and cause of each request sent
                 \* (history variable)
  aLastReturn,   \* the response handleResponse received in the last step and
                 \* the kind it returned, NoReturn otherwise (history variable)
  hMounted,      \* the effect of PhotosScreen has run
  hPhotos,       \* PhotosScreen.photos
  hIsLoading,    \* PhotosScreen.isLoading
  hRefreshing,   \* PhotosScreen.refreshing
  hPhotosFrom,   \* number of the listFiles call whose response setPhotos
                 \* received last, 0 before the first (history variable)
  gErrorStates   \* PhotoGallery errorStates: ids whose image failed to load

varsDrive == <<aContentType, aPending, aSent, aLastReturn, hMounted, hPhotos,
               hIsLoading, hRefreshing, hPhotosFrom, gErrorStates>>

VARIABLES
  tToken,        \* localStorage item 'auth_token', NoToken when there is none
  tRoute,        \* the route the router was last sent to
  tPending,      \* requests of the entity client not yet settled
  tCalls,        \* number of transport calls subscribed so far
  tLastSent,     \* stored token and Authorization header of the last transport
                 \* call (history variable)
  tLastOutcome,  \* status of the last answer and whether it reached the
                 \* subscriber (history variable)
  tEvent         \* the step that ran last (history variable)

varsAuth == <<tToken, tRoute, tPending, tCalls, tLastSent, tLastOutcome, tEvent>>

\* The parts of the client around the lists.
VARIABLES
  zPageSize,      \* config$.pageSize of the lazy-load InfiniteScrollComponent
  zBackend,       \* number of records the host's data source holds
  zBindsLoading,  \* the host binds the loading input
  zItems,         \* the items input
  zTotalRecords,  \* the totalRecords input
  zLoading,       \* the loading input
  zState,         \* InfiniteScrollComponent.state
  zFetching,      \* onLoadMore events the host has not answered yet
  zEmitted,       \* number of onLoadMore events emitted (history variable)
  zAnswered,      \* the host has received a response (history variable)
  zMounted,       \* ngOnInit has run
  zEvent          \* the step that ran last (history variable)

varsLazy == <<zPageSize, zBackend, zBindsLoading, zItems, zTotalRecords, zLoading,
              zState, zFetching, zEmitted, zAnswered, zMounted, zEvent>>

varsAux == <<varsNormalize, varsDrive, varsAuth, varsLazy>>

vars == <<varsRetry, varsDiary, varsPage, varsFavorite, varsScroll, varsAux>>

\* What the actions of each part leave alone.
varsNotRetry == <<varsDiary, varsPage, varsFavorite, varsScroll, varsAux>>
varsNotDiary == <<varsRetry, varsPage, varsFavorite, varsScroll, varsAux>>
varsNotPage == <<varsRetry, varsDiary, varsFavorite, varsScroll, varsAux>>
varsNotScroll == <<varsRetry, varsDiary, varsPage, varsFavorite, varsAux>>
varsNotAux == <<varsRetry, varsDiary, varsPage, varsFavorite, varsScroll, varsLazy>>
varsNotLazy == <<varsRetry, varsDiary, varsPage, varsFavorite, varsScroll,
                varsNormalize, varsDrive, varsAuth>>

(***************************************************************************)
(* The transport's answers.                                                *)
(***************************************************************************)
Statuses == {0, 200, 404, 422, 500, 503}

\* HttpErrorResponse.error: an ErrorEvent, an object (with or without a
\* `message` string and an `errors` array), or anything else (null, text).
NoBody == [kind |-> "other", hasMessage |-> FALSE, message |-> "", errors |-> <<>>]
ErrorEventBody ==
  [kind |-> "ErrorEvent", hasMessage |-> TRUE, message |-> "net::ERR", errors |-> <<>>]
ObjectBodies ==
  [kind : {"object"}, hasMessage : BOOLEAN, message : {"", "server says no"},
   errors : {<<>>, <<"first error", "second error">>}]
Bodies(status) ==
  IF status = 0 THEN {ErrorEventBody, NoBody}
  ELSE {b \in ObjectBodies : b.hasMessage \/ b.message = ""} \cup {NoBody}

(***************************************************************************)
(* BaseService: which request method each operation of the entity client   *)
(* calls, and how that method issues the request.                          *)
(***************************************************************************)
Ops == {"getAll", "getById", "search", "remove", "create", "update",
        "partialUpdate", "toggleFavorite", "bulkUpdate", "bulkDelete",
        "uploadFile", "downloadFile", "uploadBulkFiles", "bulkDeleteFiles"}

ServiceMethod(op) ==
  CASE op \in {"getAll", "getById", "search"} -> "get"
    [] op = "remove" -> "delete"
    [] op \in {"create", "bulkUpdate", "bulkDelete", "uploadBulkFiles",
               "bulkDeleteFiles"} -> "post"
    [] op = "update" -> "put"
    [] op \in {"partialUpdate", "toggleFavorite"} -> "patch"
    [] op = "uploadFile" -> "uploadFile"
    [] op = "downloadFile" -> "downloadFile"

Verb(op) ==
  CASE ServiceMethod(op) \in {"get", "downloadFile"} -> "GET"
    [] ServiceMethod(op) = "delete" -> "DELETE"
    [] ServiceMethod(op) \in {"post", "uploadFile"} -> "POST"
    [] ServiceMethod(op) = "put" -> "PUT"
    [] ServiceMethod(op) = "patch" -> "PATCH"

UsesRetryEveryGet(op) == Verb(op) \in {"GET", "DELETE"}

UsesRetryAll(op) == TRUE

\* get and delete wrap the request in _executeWithRetry; post, put, patch,
\* uploadFile and downloadFile pipe it into catchError(_handleError) only.
UsesRetry(op) == ServiceMethod(op) \in {"get", "delete"}

IsRetryableStatusNetworkOnly(status) == status = 0

IsRetryableStatus(status) == status = 0 \/ (status >= 500 /\ status < 600)

ShouldRetryOneMore(status, attempt) ==
  IF attempt > retryAttempts THEN FALSE ELSE IsRetryableStatus(status)

ShouldRetryAnyStatus(status, attempt) == attempt < retryAttempts

ShouldRetry(status, attempt) ==
  IF attempt >= retryAttempts THEN FALSE ELSE IsRetryableStatus(status)

RECURSIVE Pow2(_)
Pow2(n) == IF n = 0 THEN 1 ELSE 2 * Pow2(n - 1)

CalculateRetryDelayLinear(attempt) == retryDelay * (attempt + 1)

CalculateRetryDelay(attempt) == retryDelay * Pow2(attempt)

GetDefaultErrorMessage(status) ==
  CASE status = 400 -> "Bad Request"
    [] status = 401 -> "Unauthorized"
    [] status = 403 -> "Forbidden"
    [] status = 404 -> "Not Found"
    [] status = 409 -> "Conflict"
    [] status = 422 -> "Unprocessable Entity"
    [] status = 500 -> "Internal Server Error"
    [] status = 502 -> "Bad Gateway"
    [] status = 503 -> "Service Unavailable"
    [] OTHER -> "Unknown Error"

ExtractErrorMessageErrorsFirst(status, body) ==
  IF body.kind = "object" /\ Len(body.errors) > 0 THEN body.errors[1]
  ELSE IF body.kind = "object" /\ body.hasMessage THEN body.message
  ELSE GetDefaultErrorMessage(status)

ExtractErrorMessage(status, body) ==
  IF body.kind = "object" /\ body.hasMessage THEN body.message
  ELSE IF body.kind = "object" /\ Len(body.errors) > 0 THEN body.errors[1]
  ELSE GetDefaultErrorMessage(status)

\* The IApiError thrown to the subscriber.
HandleError(status, body) ==
  IF body.kind = "ErrorEvent"
  THEN [ok |-> FALSE, status |-> 0,
        message |-> "Connection error. Please check your internet connection."]
  ELSE [ok |-> FALSE, status |-> status,
        message |-> ExtractErrorMessage(status, body)]

Is2xx(status) == status >= 200 /\ status < 300

Success == [ok |-> TRUE, status |-> 200, message |-> ""]

(***************************************************************************)
(* SpecRetry: one request.                                                 *)
(***************************************************************************)
InitRetry ==
  /\ retryAttempts \in 0..MaxRetryAttempts
  /\ retryDelay \in 1..MaxRetryDelay
  /\ rOp = "none"
  /\ rPhase = "idle"
  /\ rAttempt = 0
  /\ rCalls = 0
  /\ rHistory = <<>>
  /\ rDelays = <<>>
  /\ rDelivered = <<>>
  /\ rSaved = 0

\* A public method of the client is called and subscribed: attempt 0 runs
\* at once.
StartRequest(op) ==
  /\ rPhase = "idle"
  /\ rOp' = op
  /\ rPhase' = "inflight"
  /\ rAttempt' = 0
  /\ rCalls' = 1
  /\ UNCHANGED <<retryAttempts, retryDelay, rHistory, rDelays, rDelivered, rSaved>>
  /\ UNCHANGED varsNotRetry

\* The transport answers the outstanding call with a 2xx response.
TransportSucceeds ==
  /\ rPhase = "inflight"
  /\ rHistory' = Append(rHistory, Success.status)
  /\ rDelivered' = Append(rDelivered, Success)
  /\ rSaved' = IF ServiceMethod(rOp) = "downloadFile" THEN rSaved + 1 ELSE rSaved
  /\ rPhase' = "done"
  /\ UNCHANGED <<retryAttempts, retryDelay, rOp, rAttempt, rCalls, rDelays>>
  /\ UNCHANGED varsNotRetry

\* The transport answers the outstanding call with a failure: the catchError
\* of _executeWithRetry (get, delete) or of the method itself.
TransportFails(status, body) ==
  /\ rPhase = "inflight"
  /\ ~Is2xx(status)
  /\ rHistory' = Append(rHistory, status)
  /\ IF UsesRetry(rOp) /\ ShouldRetry(status, rAttempt)
     THEN /\ rDelays' = Append(rDelays, CalculateRetryDelay(rAttempt))
          /\ rPhase' = "backoff"
          /\ UNCHANGED rDelivered
     ELSE /\ rDelivered' = Append(rDelivered, HandleError(status, body))
          /\ rPhase' = "done"
          /\ UNCHANGED rDelays
  /\ UNCHANGED <<retryAttempts, retryDelay, rOp, rAttempt, rCalls, rSaved>>
  /\ UNCHANGED varsNotRetry

\* timer(delay) fires: switchMap subscribes to _executeWithRetry(requestFn,
\* attempt + 1), a fresh transport call.
TimerFires ==
  /\ rPhase = "backoff"
  /\ rAttempt' = rAttempt + 1
  /\ rCalls' = rCalls + 1
  /\ rPhase' = "inflight"
  /\ UNCHANGED <<retryAttempts, retryDelay, rOp, rHistory, rDelays, rDelivered, rSaved>>
  /\ UNCHANGED varsNotRetry

NextRetry ==
  \/ \E op \in Ops : StartRequest(op)
  \/ TransportSucceeds
  \/ \E status \in Statuses : \E body \in Bodies(status) : TransportFails(status, body)
  \/ TimerFires

\* The client is not in use.
QuietRetry ==
  /\ retryAttempts = 0
  /\ retryDelay = 1
  /\ rOp = "none"
  /\ rPhase = "idle"
  /\ rAttempt = 0
  /\ rCalls = 0
  /\ rHistory = <<>>
  /\ rDelays = <<>>
  /\ rDelivered = <<>>
  /\ rSaved = 0

(***************************************************************************)
(* The diary page (signal state): records, loading, hasMore, error,        *)
(* currentPage, showOnlyFavorites.  A list request goes through            *)
(* RecordsService.getAll / getFavorites, that is BaseService.get with its  *)
(* retries; it settles once, with a response or with the IApiError.        *)
(***************************************************************************)
NoError == "null"
NoApiError == [error |-> Success, page |-> 0]
LoadError == "Erro ao carregar records"

ItemIds == 1..MaxItemId

\* A served page: records with distinct ids, each with the favorite flag the
\* backend holds; a favorites request is served favorites only.
RECURSIVE PagesOver(_)
PagesOver(ids) ==
  {<<>>} \cup UNION {{<<i>> \o p : p \in PagesOver(ids \ {i})} : i \in ids}

Item(i) == [id |-> i, isFavorite |-> i \in backendFav]

ServedPages(favoritesOnly) ==
  {[k \in 1..Len(p) |-> Item(p[k])] :
     p \in PagesOver(IF favoritesOnly THEN backendFav ELSE ItemIds)}

\* response.meta: the page served and the `limit` it is compared with.
Metas(page) == [page : {page}, limit : 1..(MaxPage + 1)]

InitDiary ==
  /\ backendFav \in SUBSET ItemIds
  /\ records = <<>>
  /\ loading = FALSE
  /\ hasMore = TRUE
  /\ error = NoError
  /\ currentPage = 0
  /\ showOnlyFavorites = FALSE
  /\ dMounted = FALSE
  /\ dInflight = <<>>
  /\ dEvents = <<"none", "none">>
  /\ dApiError = NoApiError

\* The diary page is not in use.
QuietDiary ==
  /\ backendFav = {}
  /\ records = <<>>
  /\ loading = FALSE
  /\ hasMore = TRUE
  /\ error = NoError
  /\ currentPage = 0
  /\ showOnlyFavorites = FALSE
  /\ dMounted = FALSE
  /\ dInflight = <<>>
  /\ dEvents = <<"none", "none">>
  /\ dApiError = NoApiError

Event(name) ==
  /\ dEvents' = <<dEvents[2], name>>
  /\ dApiError' = NoApiError

\* IApiError values a list request ends with: no connection, and a 404
\* whose body carries a message.  The page's handlers never read the error.
ApiErrors ==
  {HandleError(0, ErrorEventBody),
   HandleError(404, [kind |-> "object", hasMessage |-> TRUE,
                     message |-> "server says no", errors |-> <<>>])}

NewFetch(isInitial, favoritesOnly, page) ==
  [page |-> page, isInitial |-> isInitial, favoritesOnly |-> favoritesOnly,
   stale |-> FALSE]

\* loadRecords without the loading guard.
LoadRecordsUnguarded(isInitial, favoritesOnly, page, err, inflight) ==
  /\ page <= MaxPage
  /\ Len(inflight) < MaxInflight
  /\ loading' = TRUE
  /\ error' = NoError
  /\ dInflight' = Append(inflight, NewFetch(isInitial, favoritesOnly, page))

\* loadRecords(isInitial), up to the subscription.  favoritesOnly, page and
\* err are the values of showOnlyFavorites(), currentPage() + 1 and error()
\* it finds, which its caller may have just written; inflight are the
\* requests outstanding.
LoadRecords(isInitial, favoritesOnly, page, err, inflight) ==
  IF loading
  THEN /\ loading' = loading
       /\ error' = err
       /\ dInflight' = inflight
  ELSE /\ page <= MaxPage
       /\ loading' = TRUE
       /\ error' = NoError
       /\ dInflight' = Append(inflight, NewFetch(isInitial, favoritesOnly, page))

NgOnInit ==
  /\ ~dMounted
  /\ dMounted' = TRUE
  /\ LoadRecords(TRUE, showOnlyFavorites, 1, error, dInflight)
  /\ Event("init")
  /\ UNCHANGED varsNotDiary
  /\ UNCHANGED <<backendFav, records, hasMore, currentPage, showOnlyFavorites>>

\* (scrolled) of the directive.
OnScrolled ==
  /\ dMounted
  /\ LoadRecords(FALSE, showOnlyFavorites, currentPage + 1, error, dInflight)
  /\ Event("scroll")
  /\ UNCHANGED varsNotDiary
  /\ UNCHANGED <<backendFav, records, hasMore, currentPage, showOnlyFavorites, dMounted>>

\* onRetry that asks for the next page, as onScrolled does.
OnRetryNextPage ==
  /\ dMounted
  /\ LoadRecords(FALSE, showOnlyFavorites, currentPage + 1, NoError, dInflight)
  /\ Event("retry")
  /\ UNCHANGED varsNotDiary
  /\ UNCHANGED <<backendFav, records, hasMore, currentPage, showOnlyFavorites, dMounted>>

\* onRetry: error.set(null), then loadRecords(true).
OnRetry ==
  /\ dMounted
  /\ LoadRecords(TRUE, showOnlyFavorites, 1, NoError, dInflight)
  /\ Event("retry")
  /\ UNCHANGED varsNotDiary
  /\ UNCHANGED <<backendFav, records, hasMore, currentPage, showOnlyFavorites, dMounted>>

\* The requests in flight when the list is reset were issued before it.
MarkStale(q) == [k \in 1..Len(q) |-> [q[k] EXCEPT !.stale = TRUE]]

\* resetAndReload that leaves the list as it is.
ResetAndReloadKeepsRecords(favoritesOnly) ==
  /\ records' = records
  /\ currentPage' = 0
  /\ hasMore' = TRUE
  /\ LoadRecords(TRUE, favoritesOnly, 1, NoError, MarkStale(dInflight))

\* resetAndReload, with showOnlyFavorites() = favoritesOnly just set.
ResetAndReload(favoritesOnly) ==
  /\ records' = <<>>
  /\ currentPage' = 0
  /\ hasMore' = TRUE
  /\ LoadRecords(TRUE, favoritesOnly, 1, NoError, MarkStale(dInflight))

OnFilterChange(checked) ==
  /\ dMounted
  /\ showOnlyFavorites' = checked
  /\ ResetAndReload(checked)
  /\ Event("filter")
  /\ UNCHANGED varsNotDiary
  /\ UNCHANGED <<backendFav, dMounted>>

ShowAllRecords ==
  /\ dMounted
  /\ showOnlyFavorites' = FALSE
  /\ ResetAndReload(FALSE)
  /\ Event("showAll")
  /\ UNCHANGED varsNotDiary
  /\ UNCHANGED <<backendFav, dMounted>>

Remove(q, k) == [j \in 1..(Len(q) - 1) |-> IF j < k THEN q[j] ELSE q[j + 1]]

\* The subscriber's next handler applied to a response with data.
ApplyResponse(f, data, meta) ==
  /\ records' = IF f.isInitial THEN data ELSE records \o data
  /\ currentPage' = f.page
  /\ hasMore' = (meta.limit > meta.page)

\* Request k settles with a response: next, then finalize.
FetchSucceeds(k) ==
  /\ k \in 1..Len(dInflight)
  /\ \E data \in ServedPages(dInflight[k].favoritesOnly) :
       \E meta \in Metas(dInflight[k].page) :
         ApplyResponse(dInflight[k], data, meta)
  /\ loading' = FALSE
  /\ dInflight' = Remove(dInflight, k)
  /\ Event("response")
  /\ UNCHANGED varsNotDiary
  /\ UNCHANGED <<backendFav, error, showOnlyFavorites, dMounted>>

\* Request k settles with the IApiError apiError (retries included):
\* catchError sets the message and hands null to the subscriber; then
\* finalize.
FetchFails(k, apiError) ==
  /\ k \in 1..Len(dInflight)
  /\ error' = LoadError
  /\ loading' = FALSE
  /\ dInflight' = Remove(dInflight, k)
  /\ dEvents' = <<dEvents[2], "failure">>
  /\ dApiError' = [error |-> apiError, page |-> dInflight[k].page]
  /\ UNCHANGED varsNotDiary
  /\ UNCHANGED <<backendFav, records, hasMore, currentPage, showOnlyFavorites, dMounted>>

(***************************************************************************)
(* Favorite toggles of the diary page (signal state).  The card flips the  *)
(* flag of its record and the page handler receives that record.           *)
(***************************************************************************)
NoFailure == [id |-> 0, before |-> FALSE]

\* No favorite mutation was ever issued.
QuietFavorite ==
  /\ dUpdates = <<>>
  /\ dListBefore = <<>>
  /\ pUpdates = <<>>
  /\ pLastFailed = NoFailure

UpdateOrInsertFavoriteState(list, recordId, isFavorite) ==
  IF \E k \in 1..Len(list) : list[k].id = recordId
  THEN [k \in 1..Len(list) |->
          IF list[k].id = recordId
          THEN [list[k] EXCEPT !.isFavorite = isFavorite]
          ELSE list[k]]
  ELSE Append(list, [id |-> recordId, isFavorite |-> isFavorite])

\* updateRecordFavoriteState
UpdateRecordFavoriteState(list, recordId, isFavorite) ==
  [k \in 1..Len(list) |->
     IF list[k].id = recordId
     THEN [list[k] EXCEPT !.isFavorite = isFavorite]
     ELSE list[k]]

\* removeRecordFromList
RemoveRecordFromList(list, recordId) ==
  SelectSeq(list, LAMBDA r : r.id # recordId)

\* The card at position pos is clicked: RecordCardComponent.toggleFavorite
\* flips the flag of its record, then onFavoriteToggled(record) runs up to
\* the subscription of toggleFavorite.
OnFavoriteToggled(pos) ==
  /\ pos \in 1..Len(records)
  /\ Len(dUpdates) < MaxUpdates
  /\ LET recordId == records[pos].id
         isFavorite == ~records[pos].isFavorite
         previousFavoriteState == ~isFavorite
         updated == UpdateRecordFavoriteState(records, recordId, isFavorite)
     IN /\ records' = IF showOnlyFavorites /\ ~isFavorite
                      THEN RemoveRecordFromList(updated, recordId)
                      ELSE updated
        /\ dUpdates' = Append(dUpdates,
                              [id |-> recordId, isFavorite |-> isFavorite,
                               previousFavoriteState |-> previousFavoriteState])
  /\ dListBefore' = records
  /\ Event("toggle")
  /\ UNCHANGED <<varsAux, varsScroll, varsRetry, varsPage, pUpdates, pLastFailed>>
  /\ UNCHANGED <<backendFav, loading, hasMore, error, currentPage,
                 showOnlyFavorites, dMounted, dInflight>>

\* The PATCH of request k succeeds: nothing is written locally.
ToggleFavoriteSucceeds(k) ==
  /\ k \in 1..Len(dUpdates)
  /\ backendFav' = IF dUpdates[k].isFavorite
                   THEN backendFav \cup {dUpdates[k].id}
                   ELSE backendFav \ {dUpdates[k].id}
  /\ dUpdates' = Remove(dUpdates, k)
  /\ Event("toggleDone")
  /\ UNCHANGED <<varsAux, varsScroll, varsRetry, varsPage, dListBefore, pUpdates, pLastFailed>>
  /\ UNCHANGED <<varsDiaryState, dMounted, dInflight>>

\* The PATCH of request k fails: catchError rolls the flag back.
ToggleFavoriteFails(k) ==
  /\ k \in 1..Len(dUpdates)
  /\ records' = UpdateRecordFavoriteState(records, dUpdates[k].id,
                                          dUpdates[k].previousFavoriteState)
  /\ dUpdates' = Remove(dUpdates, k)
  /\ Event("toggleFailed")
  /\ UNCHANGED <<varsAux, varsScroll, varsRetry, varsPage, dListBefore, pUpdates, pLastFailed>>
  /\ UNCHANGED <<backendFav, loading, hasMore, error, currentPage,
                 showOnlyFavorites, dMounted, dInflight>>

NextDiaryFavorites ==
  \/ NgOnInit
  \/ \E checked \in BOOLEAN : OnFilterChange(checked)
  \/ \E k \in 1..Len(dInflight) : FetchSucceeds(k)
  \/ \E pos \in 1..Len(records) : OnFavoriteToggled(pos)
  \/ \E k \in 1..Len(dUpdates) : ToggleFavoriteSucceeds(k)
  \/ \E k \in 1..Len(dUpdates) : ToggleFavoriteFails(k)

NextDiary ==
  \/ NgOnInit
  \/ OnScrolled
  \/ OnRetry
  \/ \E checked \in BOOLEAN : OnFilterChange(checked)
  \/ ShowAllRecords
  \/ \E k \in 1..Len(dInflight) : FetchSucceeds(k)
  \/ \E k \in 1..Len(dInflight) : \E apiError \in ApiErrors : FetchFails(k, apiError)

(***************************************************************************)
(* The diary page (allRecords / filteredRecords).  The page size is the    *)
(* field _paginationParams.size, which nothing writes after construction;  *)
(* the properties are checked for each size in 1..MaxItemId.               *)
(***************************************************************************)
PageItem(i) == [id |-> i, isFavorite |-> i \in pageFav]

\* A served page holds at most `size` records.
PageServedPages(favoritesOnly, size) ==
  {[k \in 1..Len(p) |-> PageItem(p[k])] :
     p \in {q \in PagesOver(IF favoritesOnly THEN pageFav ELSE ItemIds) :
              Len(q) <= size}}

SelectFavorites(list) == SelectSeq(list, LAMBDA r : r.isFavorite)

\* _updateFilteredRecords with allRecords = list.
UpdateFilteredRecords(list, favoritesOnly) ==
  filteredRecords' = IF favoritesOnly THEN SelectFavorites(list) ELSE list

\* _checkIfHasMoreRecords
CheckIfHasMoreRecords(loadedCount) ==
  hasMoreRecords' = (loadedCount = paginationSize)

InitPage ==
  /\ pageFav \in SUBSET ItemIds
  /\ pShowOnlyFavorites = FALSE
  /\ allRecords = <<>>
  /\ filteredRecords = <<>>
  /\ isLoading = FALSE
  /\ hasMoreRecords = TRUE
  /\ paginationPage = 1
  /\ paginationSize \in 1..MaxItemId
  /\ pMounted = FALSE
  /\ pInflight = <<>>
  /\ pEvent = "none"
  /\ pLastLoaded = 0

\* The page is not in use.
QuietPage ==
  /\ pageFav = {}
  /\ pShowOnlyFavorites = FALSE
  /\ allRecords = <<>>
  /\ filteredRecords = <<>>
  /\ isLoading = FALSE
  /\ hasMoreRecords = TRUE
  /\ paginationPage = 1
  /\ paginationSize = 1
  /\ pMounted = FALSE
  /\ pInflight = <<>>
  /\ pEvent = "none"
  /\ pLastLoaded = 0

\* The step is a run of handler `name` that puts no page into the list.
PageEvent(name) == pEvent' = name /\ pLastLoaded' = pLastLoaded

\* The step is a run of handler `name` after which the list holds the
\* pages up to `page`.
PageEventLoaded(name, page) == pEvent' = name /\ pLastLoaded' = page

PageFetch(kind, favoritesOnly, page) ==
  [kind |-> kind, page |-> page, favoritesOnly |-> favoritesOnly, stale |-> FALSE]

\* _loadInitialRecords, up to the subscription; favoritesOnly is the value
\* of showOnlyFavorites _fetchRecords reads.
LoadInitialRecords(favoritesOnly, inflight) ==
  /\ Len(inflight) < MaxInflight
  /\ isLoading' = TRUE
  /\ paginationPage' = 1
  /\ allRecords' = <<>>
  /\ hasMoreRecords' = TRUE
  /\ pInflight' = Append(inflight, PageFetch("initial", favoritesOnly, 1))

PageNgOnInit ==
  /\ ~pMounted
  /\ pMounted' = TRUE
  /\ LoadInitialRecords(pShowOnlyFavorites, pInflight)
  /\ PageEventLoaded("init", 0)
  /\ UNCHANGED varsNotPage
  /\ UNCHANGED <<pageFav, pShowOnlyFavorites, filteredRecords, paginationSize>>

\* _loadMoreRecords, up to the subscription.
LoadMoreRecords ==
  IF isLoading \/ ~hasMoreRecords
  THEN UNCHANGED <<isLoading, paginationPage, pInflight>>
  ELSE /\ paginationPage + 1 <= MaxPage
       /\ Len(pInflight) < MaxInflight
       /\ isLoading' = TRUE
       /\ paginationPage' = paginationPage + 1
       /\ pInflight' = Append(pInflight,
            PageFetch("more", pShowOnlyFavorites, paginationPage + 1))

\* _shouldLoadMore; nearBottom is
\* scrollTop + windowHeight >= documentHeight - threshold.
PageShouldLoadMore(nearBottom) ==
  IF isLoading \/ ~hasMoreRecords THEN FALSE ELSE nearBottom

\* onScroll (window:scroll)
PageOnScroll(nearBottom) ==
  /\ pMounted
  /\ IF PageShouldLoadMore(nearBottom)
     THEN LoadMoreRecords
     ELSE UNCHANGED <<isLoading, paginationPage, pInflight>>
  /\ PageEvent(IF nearBottom THEN "scroll" ELSE "scrollFar")
  /\ UNCHANGED varsNotPage
  /\ UNCHANGED <<pageFav, pShowOnlyFavorites, allRecords, filteredRecords,
                 hasMoreRecords, paginationSize, pMounted>>

\* onFilterChange: showOnlyFavorites = event.checked, then _resetAndReload,
\* whose own writes _loadInitialRecords repeats.
PageOnFilterChange(checked) ==
  /\ pMounted
  /\ pShowOnlyFavorites' = checked
  /\ LoadInitialRecords(checked, MarkStale(pInflight))
  /\ PageEventLoaded("filter", 0)
  /\ UNCHANGED varsNotPage
  /\ UNCHANGED <<pageFav, filteredRecords, paginationSize, pMounted>>

\* _removeDuplicates
RemoveDuplicates(newRecords) ==
  LET existingIds == {allRecords[k].id : k \in 1..Len(allRecords)}
  IN  SelectSeq(newRecords, LAMBDA r : r.id \notin existingIds)

\* Request k settles with a response: next, then finalize.
PageFetchSucceeds(k) ==
  /\ k \in 1..Len(pInflight)
  /\ \E data \in PageServedPages(pInflight[k].favoritesOnly, paginationSize) :
       /\ IF pInflight[k].kind = "initial"
          THEN /\ allRecords' = data
               /\ UpdateFilteredRecords(data, pShowOnlyFavorites)
          ELSE /\ allRecords' = allRecords \o RemoveDuplicates(data)
               /\ UpdateFilteredRecords(allRecords \o RemoveDuplicates(data),
                                        pShowOnlyFavorites)
       /\ CheckIfHasMoreRecords(Len(data))
  /\ isLoading' = FALSE
  /\ pInflight' = Remove(pInflight, k)
  /\ PageEventLoaded("response", pInflight[k].page)
  /\ UNCHANGED varsNotPage
  /\ UNCHANGED <<pageFav, pShowOnlyFavorites, paginationPage, paginationSize, pMounted>>

\* Request k settles with the IApiError: error, then finalize.
PageFetchFails(k) ==
  /\ k \in 1..Len(pInflight)
  /\ IF pInflight[k].kind = "initial"
     THEN /\ allRecords' = <<>>
          /\ UpdateFilteredRecords(<<>>, pShowOnlyFavorites)
          /\ UNCHANGED paginationPage
     ELSE /\ paginationPage' = paginationPage - 1
          /\ UNCHANGED <<allRecords, filteredRecords>>
  /\ isLoading' = FALSE
  /\ pInflight' = Remove(pInflight, k)
  /\ PageEvent("failure")
  /\ UNCHANGED varsNotPage
  /\ UNCHANGED <<pageFav, pShowOnlyFavorites, hasMoreRecords, paginationSize, pMounted>>

(***************************************************************************)
(* Favorite toggles of the diary page (allRecords / filteredRecords).      *)
(* The records are objects shared by allRecords, filteredRecords and the   *)
(* cards.  The template binding that hands onFavoriteChanged its argument  *)
(* is not part of the sources, so the argument is either the record of     *)
(* the list itself (aliased) or another object with the id and new flag.   *)
(***************************************************************************)
\* Array.find followed by an assignment to isFavorite of the record found.
SetFavoriteOfFound(list, recordId, value) ==
  LET hits == {k \in 1..Len(list) : list[k].id = recordId}
  IN IF hits = {} THEN list
     ELSE LET first == CHOOSE k \in hits : \A j \in hits : k <= j
          IN [list EXCEPT ![first].isFavorite = value]

FavoriteOf(list, recordId) ==
  LET first == CHOOSE k \in 1..Len(list) :
                 /\ list[k].id = recordId
                 /\ \A j \in 1..(k - 1) : list[j].id # recordId
  IN list[first].isFavorite

\* The card at position pos of filteredRecords is clicked:
\* RecordCardComponent.toggleFavorite flips the flag of its record, then
\* onFavoriteChanged(currentRecord) runs up to the subscription of
\* partialUpdate.  `before` is a history field: the flag before the click.
OnFavoriteChanged(pos, aliased) ==
  /\ pos \in 1..Len(filteredRecords)
  /\ Len(pUpdates) < MaxUpdates
  /\ LET recordId == filteredRecords[pos].id
         before == FavoriteOf(allRecords, recordId)
         updated == SetFavoriteOfFound(allRecords, recordId, ~before)
     IN /\ allRecords' = updated
        /\ UpdateFilteredRecords(updated, pShowOnlyFavorites)
        /\ pUpdates' = Append(pUpdates,
                              [id |-> recordId, isFavorite |-> ~before,
                               aliased |-> aliased, before |-> before])
  /\ pLastFailed' = NoFailure
  /\ PageEvent("toggle")
  /\ UNCHANGED <<varsAux, varsScroll, varsRetry, varsDiary, dUpdates, dListBefore>>
  /\ UNCHANGED <<pageFav, pShowOnlyFavorites, isLoading, hasMoreRecords,
                 paginationPage, paginationSize, pMounted, pInflight>>

\* The PATCH of request k succeeds: nothing is written locally.
UpdateFavoriteSucceeds(k) ==
  /\ k \in 1..Len(pUpdates)
  /\ pageFav' = IF pUpdates[k].isFavorite
                THEN pageFav \cup {pUpdates[k].id}
                ELSE pageFav \ {pUpdates[k].id}
  /\ pUpdates' = Remove(pUpdates, k)
  /\ pLastFailed' = NoFailure
  /\ PageEvent("toggleDone")
  /\ UNCHANGED <<varsAux, varsScroll, varsRetry, varsDiary, dUpdates, dListBefore>>
  /\ UNCHANGED <<varsPageState, paginationSize, pMounted, pInflight>>

\* The PATCH of request k fails: catchError sets the flag of the record
\* found to !record.isFavorite, reading the argument object at that time.
UpdateFavoriteFails(k) ==
  /\ k \in 1..Len(pUpdates)
  /\ LET u == pUpdates[k]
         found == \E j \in 1..Len(allRecords) : allRecords[j].id = u.id
         recordIsFavorite == IF u.aliased /\ found
                             THEN FavoriteOf(allRecords, u.id)
                             ELSE u.isFavorite
         reverted == SetFavoriteOfFound(allRecords, u.id, ~recordIsFavorite)
     IN /\ allRecords' = reverted
        /\ IF found
           THEN UpdateFilteredRecords(reverted, pShowOnlyFavorites)
           ELSE UNCHANGED filteredRecords
        /\ pLastFailed' = [id |-> u.id, before |-> u.before]
  /\ pUpdates' = Remove(pUpdates, k)
  /\ PageEvent("toggleFailed")
  /\ UNCHANGED <<varsAux, varsScroll, varsRetry, varsDiary, dUpdates, dListBefore>>
  /\ UNCHANGED <<pageFav, pShowOnlyFavorites, isLoading, hasMoreRecords,
                 paginationPage, paginationSize, pMounted, pInflight>>

NextPageFavorites ==
  \/ PageNgOnInit
  \/ \E k \in 1..Len(pInflight) : PageFetchSucceeds(k)
  \/ \E pos \in 1..Len(filteredRecords) : \E aliased \in BOOLEAN :
       OnFavoriteChanged(pos, aliased)
  \/ \E k \in 1..Len(pUpdates) : UpdateFavoriteSucceeds(k)
  \/ \E k \in 1..Len(pUpdates) : UpdateFavoriteFails(k)

NextPage ==
  \/ PageNgOnInit
  \/ \E nearBottom \in BOOLEAN : PageOnScroll(nearBottom)
  \/ \E checked \in BOOLEAN : PageOnFilterChange(checked)
  \/ \E k \in 1..Len(pInflight) : PageFetchSucceeds(k)
  \/ \E k \in 1..Len(pInflight) : PageFetchFails(k)

NoToken == "null"

\* A string the code tests for truthiness.
Truthy(str) == str \notin {NoError, NoToken, ""}

(***************************************************************************)
(* SpecLazy: the lazy-load InfiniteScrollComponent.  No component of the   *)
(* application hosts it; its host is modelled by the interface it has to   *)
(* use: it binds items and totalRecords, and loading or not, answers each  *)
(* onLoadMore event by fetching the rows asked for, and may call reset().  *)
(* Change detection runs right after each step of the host.                *)
(***************************************************************************)
\* config.pageSize values of the hosts
LazyPageSizes == {1, 2}

\* state as the field initializer leaves it
InitialLazyState ==
  [loading |-> FALSE, totalRecords |-> 0, hasMore |-> TRUE, currentPage |-> 1]

InitLazy ==
  /\ zPageSize \in LazyPageSizes
  /\ zBackend \in 0..MaxLazyTotal
  /\ zBindsLoading \in BOOLEAN
  /\ zItems = <<>>
  /\ zTotalRecords = 0
  /\ zLoading = FALSE
  /\ zState = InitialLazyState
  /\ zFetching = <<>>
  /\ zEmitted = 0
  /\ zAnswered = FALSE
  /\ zMounted = FALSE
  /\ zEvent = "none"

\* The lazy-load list is not in use.
QuietLazy ==
  /\ zPageSize = 1
  /\ zBackend = 0
  /\ zBindsLoading = FALSE
  /\ zItems = <<>>
  /\ zTotalRecords = 0
  /\ zLoading = FALSE
  /\ zState = InitialLazyState
  /\ zFetching = <<>>
  /\ zEmitted = 0
  /\ zAnswered = FALSE
  /\ zMounted = FALSE
  /\ zEvent = "none"

\* _updateState, with the inputs as they are bound now
UpdateState(items, total, loadingNow) ==
  [loading |-> loadingNow,
   totalRecords |-> total,
   hasMore |-> (total = 0 \/ Len(items) < total),
   currentPage |-> IF Len(items) = 0 THEN 1
                   ELSE (Len(items) + zPageSize - 1) \div zPageSize]

\* ngOnChanges: _updateState runs when items, totalRecords or loading got
\* a new value; otherwise state stays as `state` is.
NgOnChanges(state, itemsChanged, items, total, loadingNow) ==
  IF itemsChanged \/ total # zTotalRecords \/ loadingNow # zLoading
  THEN UpdateState(items, total, loadingNow)
  ELSE state

LazyNgOnInit ==
  /\ ~zMounted
  /\ zMounted' = TRUE
  /\ zState' = UpdateState(zItems, zTotalRecords, zLoading)
  /\ zEvent' = "init"
  /\ UNCHANGED <<zPageSize, zBackend, zBindsLoading, zItems, zTotalRecords, zLoading,
                 zFetching, zEmitted, zAnswered>>
  /\ UNCHANGED varsNotLazy

\* _onLazyLoad for the rows after the last item; when it emits, the host
\* starts a fetch and, if it binds loading, sets it.
OnLazyLoad ==
  /\ zMounted
  /\ zEvent' = "lazyLoad"
  /\ IF zState.loading \/ ~zState.hasMore
     THEN UNCHANGED <<zState, zFetching, zEmitted, zLoading>>
     ELSE LET first == Len(zItems)
              rows == zPageSize
              scrollEvent == [first |-> first, rows |-> rows,
                              page |-> (first \div rows) + 1]
              loadingNow == IF zBindsLoading THEN TRUE ELSE zLoading
          IN /\ zEmitted < MaxLazyEmits
             /\ zEmitted' = zEmitted + 1
             /\ zFetching' = Append(zFetching, scrollEvent)
             /\ zLoading' = loadingNow
             /\ zState' = NgOnChanges([zState EXCEPT !.loading = TRUE], FALSE,
                                      zItems, zTotalRecords, loadingNow)
  /\ UNCHANGED <<zPageSize, zBackend, zBindsLoading, zItems, zTotalRecords,
                 zAnswered, zMounted>>
  /\ UNCHANGED varsNotLazy

\* The rows the data source serves for an event.
LazyRows(scrollEvent) ==
  LET last == IF scrollEvent.first + scrollEvent.rows < zBackend
              THEN scrollEvent.first + scrollEvent.rows ELSE zBackend
  IN [k \in 1..(IF last > scrollEvent.first THEN last - scrollEvent.first ELSE 0) |->
        scrollEvent.first + k]

\* The host receives the rows of fetch k: it binds the longer list and the
\* total, and clears loading.
LazyHostResponse(k) ==
  /\ k \in 1..Len(zFetching)
  /\ LET items == zItems \o LazyRows(zFetching[k])
     IN /\ zItems' = items
        /\ zTotalRecords' = zBackend
        /\ zLoading' = FALSE
        /\ zState' = NgOnChanges(zState, TRUE, items, zBackend, FALSE)
  /\ zFetching' = Remove(zFetching, k)
  /\ zAnswered' = TRUE
  /\ zEvent' = "response"
  /\ UNCHANGED <<zPageSize, zBackend, zBindsLoading, zEmitted, zMounted>>
  /\ UNCHANGED varsNotLazy

\* Fetch k of the host fails: it clears loading, if it binds it.
LazyHostFailure(k) ==
  /\ k \in 1..Len(zFetching)
  /\ zLoading' = FALSE
  /\ zState' = NgOnChanges(zState, FALSE, zItems, zTotalRecords, FALSE)
  /\ zFetching' = Remove(zFetching, k)
  /\ zEvent' = "failure"
  /\ UNCHANGED <<zPageSize, zBackend, zBindsLoading, zItems, zTotalRecords,
                 zEmitted, zAnswered, zMounted>>
  /\ UNCHANGED varsNotLazy

\* reset()
LazyReset ==
  /\ zMounted
  /\ zState' = [zState EXCEPT !.currentPage = 1, !.hasMore = TRUE, !.loading = FALSE]
  /\ zEvent' = "reset"
  /\ UNCHANGED <<zPageSize, zBackend, zBindsLoading, zItems, zTotalRecords, zLoading,
                 zFetching, zEmitted, zAnswered, zMounted>>
  /\ UNCHANGED varsNotLazy

NextLazy ==
  \/ LazyNgOnInit
  \/ OnLazyLoad
  \/ \E k \in 1..Len(zFetching) : LazyHostResponse(k)
  \/ \E k \in 1..Len(zFetching) : LazyHostFailure(k)
  \/ LazyReset

(***************************************************************************)
(* SpecNormalize: _handleError applied to one failed response.             *)
(***************************************************************************)
\* Statuses of failed responses: 0 (no response), the statuses the default
\* table knows, and two it does not know.
ErrorStatuses == {0, 400, 401, 403, 404, 409, 418, 422, 500, 502, 503, 504}

\* The ProgressEvent the XHR backend reports when no response arrives: an
\* object with neither `message` nor `errors`.
ProgressEventBody ==
  [kind |-> "object", hasMessage |-> FALSE, message |-> "", errors |-> <<>>]

\* HttpErrorResponse.error of a failed response.
RawBodies(status) ==
  IF status = 0 THEN {ErrorEventBody, ProgressEventBody, NoBody}
  ELSE {b \in [kind : {"object"}, hasMessage : BOOLEAN,
               message : {"", "server says no"},
               errors : {<<>>, <<"first error">>, <<"first error", "second error">>}] :
          b.hasMessage \/ b.message = ""} \cup {NoBody}

NoRaw == [status |-> 200, body |-> NoBody]

InitNormalize ==
  /\ nRaw = NoRaw
  /\ nApiError = Success

\* No failure was normalized.
QuietNormalize ==
  /\ nRaw = NoRaw
  /\ nApiError = Success

(***************************************************************************)
(* SpecDrive: the DriveApi instance of the photos screen.  Its handlers    *)
(* are async functions, so a call can be issued while another awaits its   *)
(* response: loadPhotos (listFiles) runs on mount, on refresh and after a  *)
(* delete or an upload, handleDeletePhoto (deleteFile) on a tap, and       *)
(* processAsset (uploadFile) for each picked asset.                        *)
(***************************************************************************)
JsonContent == "application/json"
MultipartContent == "multipart/form-data"

DriveOps == {"listFiles", "deleteFile"}

\* ids of the files of the drive
FileIds == 1..MaxItemId

\* response.data.files of a listFiles response
FileLists == {<<>>, <<1>>, <<1, 2>>}

\* response.data: the body of a successful response, the body of an error
\* response (an object without `files` and `fileId`), or undefined.
OkData == [kind : {"body"}, files : FileLists]
ErrorBodyData == [kind |-> "errorBody", files |-> <<>>]
UndefinedData == [kind |-> "undefined", files |-> <<>>]

\* The ApiResponse apisauce resolves with, together with what
\* getGeneralApiProblem returns for it: a problem, or null.
ApiResponses ==
  [ok : {TRUE}, problem : {FALSE}, data : OkData]
    \cup [ok : {FALSE}, problem : BOOLEAN, data : {ErrorBodyData, UndefinedData}]

\* HttpBase.handleResponse.  Building the object literal in its try block
\* cannot throw, so "bad-data" is never returned.
HandleResponse(response) ==
  IF ~response.ok /\ response.problem
  THEN [kind |-> "problem", data |-> UndefinedData]
  ELSE [kind |-> "ok", data |-> response.data]

NoReturn == [op |-> "none", ok |-> TRUE, problem |-> FALSE, kind |-> "none"]

NoPhotos == [defined |-> TRUE, files |-> <<>>]

InitDrive ==
  /\ aContentType = JsonContent
  /\ aPending = <<>>
  /\ aSent = <<>>
  /\ aLastReturn = NoReturn
  /\ hMounted = FALSE
  /\ hPhotos = NoPhotos
  /\ hIsLoading = FALSE
  /\ hRefreshing = FALSE
  /\ hPhotosFrom = 0
  /\ gErrorStates = {}

\* The photos screen is not in use.
QuietDrive ==
  /\ aContentType = JsonContent
  /\ aPending = <<>>
  /\ aSent = <<>>
  /\ aLastReturn = NoReturn
  /\ hMounted = FALSE
  /\ hPhotos = NoPhotos
  /\ hIsLoading = FALSE
  /\ hRefreshing = FALSE
  /\ hPhotosFrom = 0
  /\ gErrorStates = {}

(***************************************************************************)
(* SpecAuth: AuthInterceptor and ErrorInterceptor around the transport     *)
(* calls of BaseService.get.  The token is stored by the login, which is   *)
(* outside this client.                                                    *)
(***************************************************************************)
StoredTokens == {"", "abc", "xyz"}

NoHeader == [scheme |-> "none", token |-> ""]

AuthStatuses == {200, 401, 500}

NothingSent == [stored |-> NoToken, authorization |-> NoHeader]
NoOutcome == [status |-> 200, delivered |-> FALSE]

InitAuth ==
  /\ tToken \in StoredTokens \cup {NoToken}
  /\ tRoute = "/"
  /\ tPending = <<>>
  /\ tCalls = 0
  /\ tLastSent = NothingSent
  /\ tLastOutcome = NoOutcome
  /\ tEvent = "none"

\* No request passes the interceptors.
QuietAuth ==
  /\ tToken = NoToken
  /\ tRoute = "/"
  /\ tPending = <<>>
  /\ tCalls = 0
  /\ tLastSent = NothingSent
  /\ tLastOutcome = NoOutcome
  /\ tEvent = "none"

QuietAux == QuietNormalize /\ QuietDrive /\ QuietAuth /\ QuietLazy

\* The login stores a token.
StoreToken(token) ==
  /\ token \in StoredTokens
  /\ tToken' = token
  /\ tEvent' = "store"
  /\ UNCHANGED <<tRoute, tPending, tCalls, tLastSent, tLastOutcome>>
  /\ UNCHANGED <<varsNormalize, varsDrive, varsNotAux>>

\* AuthInterceptor.intercept: the Authorization header of the request it
\* hands on; localStorage.getItem gives null, which NoToken stands for.
Authorization(token) ==
  IF Truthy(token) THEN [scheme |-> "Bearer", token |-> token] ELSE NoHeader

\* A transport call is subscribed and passes AuthInterceptor.
Intercept(attempt, pending) ==
  /\ tCalls < MaxCalls
  /\ tCalls' = tCalls + 1
  /\ tLastSent' = [stored |-> tToken, authorization |-> Authorization(tToken)]
  /\ tPending' = Append(pending, [attempt |-> attempt, phase |-> "inflight"])

\* A get of the entity client is subscribed.
AuthRequest ==
  /\ Intercept(0, tPending)
  /\ tEvent' = "request"
  /\ UNCHANGED <<tToken, tRoute, tLastOutcome>>
  /\ UNCHANGED <<varsNormalize, varsDrive, varsNotAux>>

\* Call k is answered with a 2xx response.
AuthResponse(k) ==
  /\ k \in 1..Len(tPending)
  /\ tPending[k].phase = "inflight"
  /\ tLastOutcome' = [status |-> 200, delivered |-> TRUE]
  /\ tPending' = Remove(tPending, k)
  /\ tEvent' = "response"
  /\ UNCHANGED <<tToken, tRoute, tCalls, tLastSent>>
  /\ UNCHANGED <<varsNormalize, varsDrive, varsNotAux>>

ErrorInterceptorKeepsToken(status) == UNCHANGED <<tToken, tRoute>>

\* catchError of ErrorInterceptor, before it rethrows the error.
ErrorInterceptor(status) ==
  IF status = 401
  THEN tToken' = NoToken /\ tRoute' = "/login"
  ELSE UNCHANGED <<tToken, tRoute>>

\* Call k is answered with a failure: catchError of ErrorInterceptor, then
\* catchError of _executeWithRetry on the error it rethrows.
AuthFailure(k, status) ==
  /\ k \in 1..Len(tPending)
  /\ tPending[k].phase = "inflight"
  /\ ~Is2xx(status)
  /\ ErrorInterceptor(status)
  /\ IF ShouldRetry(status, tPending[k].attempt)
     THEN /\ tPending' = [tPending EXCEPT ![k].phase = "backoff"]
          /\ tLastOutcome' = [status |-> status, delivered |-> FALSE]
     ELSE /\ tPending' = Remove(tPending, k)
          /\ tLastOutcome' = [status |-> status, delivered |-> TRUE]
  /\ tEvent' = "failure"
  /\ UNCHANGED <<tCalls, tLastSent>>
  /\ UNCHANGED <<varsNormalize, varsDrive, varsNotAux>>

\* The retry timer of call k fires: the transport call is subscribed again.
AuthRetry(k) ==
  /\ k \in 1..Len(tPending)
  /\ tPending[k].phase = "backoff"
  /\ Intercept(tPending[k].attempt + 1, Remove(tPending, k))
  /\ tEvent' = "retry"
  /\ UNCHANGED <<tToken, tRoute, tLastOutcome>>
  /\ UNCHANGED <<varsNormalize, varsDrive, varsNotAux>>

NextAuth ==
  \/ \E token \in StoredTokens : StoreToken(token)
  \/ AuthRequest
  \/ \E k \in 1..Len(tPending) : AuthResponse(k)
  \/ \E k \in 1..Len(tPending) : \E status \in AuthStatuses : AuthFailure(k, status)
  \/ \E k \in 1..Len(tPending) : AuthRetry(k)


\* HttpBase.get / delete / post: apisauce sends the request with the
\* headers the instance holds now.  pending are the calls outstanding,
\* cause the event the request goes back to, handler the async function
\* that awaits the result.
SendRequest(op, contentType, cause, handler, pending) ==
  /\ Len(aSent) < MaxCalls
  /\ aSent' = Append(aSent, [op |-> op, contentType |-> contentType, cause |-> cause])
  /\ aPending' = Append(pending, [op |-> op, call |-> Len(aSent) + 1, handler |-> handler])

\* loadPhotos, up to its await.
LoadPhotos(cause, handler, pending) ==
  /\ hIsLoading' = TRUE
  /\ SendRequest("listFiles", aContentType, cause, handler, pending)

\* The effect of PhotosScreen runs after the first render.
PhotosMount ==
  /\ ~hMounted
  /\ hMounted' = TRUE
  /\ LoadPhotos("mount", "loadPhotos", aPending)
  /\ aLastReturn' = NoReturn
  /\ UNCHANGED <<aContentType, hPhotos, hRefreshing, hPhotosFrom, gErrorStates>>
  /\ UNCHANGED <<varsNormalize, varsAuth, varsNotAux>>

\* PhotoGallery renders the FlatList, with the refresh control and the
\* items, only when it is not loading and there are photos.
GalleryListed == hMounted /\ ~hIsLoading /\ hPhotos.defined /\ hPhotos.files # <<>>

\* The photo with this id is rendered with its image and its delete button.
ItemShown(id) ==
  /\ GalleryListed
  /\ \E k \in 1..Len(hPhotos.files) : hPhotos.files[k] = id
  /\ id \notin gErrorStates

\* Pull to refresh: handleRefresh up to the await in loadPhotos.
HandleRefresh ==
  /\ GalleryListed
  /\ hRefreshing' = TRUE
  /\ LoadPhotos("refresh", "handleRefresh", aPending)
  /\ aLastReturn' = NoReturn
  /\ UNCHANGED <<aContentType, hMounted, hPhotos, hPhotosFrom, gErrorStates>>
  /\ UNCHANGED <<varsNormalize, varsAuth, varsNotAux>>

\* handleDeletePhoto(photo), up to its await.
HandleDeletePhoto(cause) ==
  /\ SendRequest("deleteFile", aContentType, cause, "handleDeletePhoto", aPending)
  /\ aLastReturn' = NoReturn
  /\ UNCHANGED <<aContentType, hMounted, hPhotos, hIsLoading, hRefreshing, hPhotosFrom>>
  /\ UNCHANGED <<varsNormalize, varsAuth, varsNotAux>>

\* The delete button of an item is pressed: onDeletePhoto(item).
PressDelete(id) ==
  /\ ItemShown(id)
  /\ HandleDeletePhoto("press")
  /\ UNCHANGED gErrorStates

\* onError of the image of an item: setError, setLoading, and
\* onDeletePhoto(item).  The loading states of the images only drive the
\* spinner of an item.
ImageOnError(id) ==
  /\ ItemShown(id)
  /\ gErrorStates' = gErrorStates \cup {id}
  /\ HandleDeletePhoto("imageError")

\* handleAddPress with one asset picked: processAsset up to the await in
\* uploadFile, which sets the header and posts.
UploadFileStarts ==
  /\ hMounted
  /\ aContentType' = MultipartContent
  /\ SendRequest("uploadFile", MultipartContent, "add", "processAsset", aPending)
  /\ aLastReturn' = NoReturn
  /\ UNCHANGED <<hMounted, hPhotos, hIsLoading, hRefreshing, hPhotosFrom, gErrorStates>>
  /\ UNCHANGED <<varsNormalize, varsAuth, varsNotAux>>

Returned(k, response) ==
  [op |-> aPending[k].op, ok |-> response.ok, problem |-> response.problem,
   kind |-> HandleResponse(response).kind]

\* listFiles() resolves: loadPhotos after its await, then handleRefresh
\* after its own.  Reading `files` of undefined throws into the catch.
ListFilesReturns(k, response) ==
  /\ k \in 1..Len(aPending)
  /\ aPending[k].op = "listFiles"
  /\ response \in ApiResponses
  /\ LET result == HandleResponse(response)
     IN IF result.kind = "ok" /\ result.data.kind # "undefined"
        THEN /\ hPhotos' = [defined |-> result.data.kind = "body",
                            files |-> result.data.files]
             /\ hPhotosFrom' = aPending[k].call
        ELSE UNCHANGED <<hPhotos, hPhotosFrom>>
  /\ hIsLoading' = FALSE
  /\ hRefreshing' = IF aPending[k].handler = "handleRefresh" THEN FALSE ELSE hRefreshing
  /\ aPending' = Remove(aPending, k)
  /\ aLastReturn' = Returned(k, response)
  /\ UNCHANGED <<aContentType, aSent, hMounted, gErrorStates>>
  /\ UNCHANGED <<varsNormalize, varsAuth, varsNotAux>>

\* deleteFile(id) resolves: handleDeletePhoto after its await reloads the
\* photos when the result is of kind "ok".
DeleteFileReturns(k, response) ==
  /\ k \in 1..Len(aPending)
  /\ aPending[k].op = "deleteFile"
  /\ response \in ApiResponses
  /\ IF HandleResponse(response).kind = "ok"
     THEN LoadPhotos("deleted", "loadPhotos", Remove(aPending, k))
     ELSE /\ aPending' = Remove(aPending, k)
          /\ UNCHANGED <<aSent, hIsLoading>>
  /\ aLastReturn' = Returned(k, response)
  /\ UNCHANGED <<aContentType, hMounted, hPhotos, hRefreshing, hPhotosFrom, gErrorStates>>
  /\ UNCHANGED <<varsNormalize, varsAuth, varsNotAux>>

\* uploadFile after its await: post has resolved and the header is set
\* back; processAsset then reloads the photos when the result is of kind
\* "ok" (reading `fileId` of undefined throws into its catch).
UploadFileReturns(k, response) ==
  /\ k \in 1..Len(aPending)
  /\ aPending[k].op = "uploadFile"
  /\ response \in ApiResponses
  /\ aContentType' = JsonContent
  /\ LET result == HandleResponse(response)
     IN IF result.kind = "ok" /\ result.data.kind # "undefined"
        THEN /\ hIsLoading' = TRUE
             /\ SendRequest("listFiles", JsonContent, "uploaded", "loadPhotos",
                            Remove(aPending, k))
        ELSE /\ aPending' = Remove(aPending, k)
             /\ UNCHANGED <<aSent, hIsLoading>>
  /\ aLastReturn' = Returned(k, response)
  /\ UNCHANGED <<hMounted, hPhotos, hRefreshing, hPhotosFrom, gErrorStates>>
  /\ UNCHANGED <<varsNormalize, varsAuth, varsNotAux>>

NextDrive ==
  \/ PhotosMount
  \/ HandleRefresh
  \/ \E id \in FileIds : PressDelete(id)
  \/ \E id \in FileIds : ImageOnError(id)
  \/ UploadFileStarts
  \/ \E k \in 1..Len(aPending) : \E response \in ApiResponses : ListFilesReturns(k, response)
  \/ \E k \in 1..Len(aPending) : \E response \in ApiResponses : DeleteFileReturns(k, response)
  \/ \E k \in 1..Len(aPending) : \E response \in ApiResponses : UploadFileReturns(k, response)


\* catchError hands the HttpErrorResponse to _handleError, which throws the
\* IApiError.
NormalizeError(status, body) ==
  /\ nRaw' = [status |-> status, body |-> body]
  /\ nApiError' = HandleError(status, body)
  /\ UNCHANGED <<varsDrive, varsAuth, varsNotAux>>

NextNormalize ==
  \E status \in ErrorStatuses : \E body \in RawBodies(status) :
    NormalizeError(status, body)

(***************************************************************************)
(* The records list: RecordsComponent and the InfiniteScrollComponent it   *)
(* hosts.  The backend holds the records 1..sTotal and serves page p of    *)
(* size n as the records (p-1)n+1 .. pn that exist.                        *)
(***************************************************************************)
PageBased == "page-based"
TokenBased == "token-based"
RecordsLoadError == "Erro ao carregar registros. Tente novamente."

\* config.pageSize: RecordsComponent.scrollConfig sets 15; 5 and 10 are
\* the sizes of other hosts of the component.
PageSizes == {5, 10, 15}

\* getAll requests issued over the life of the list are capped here
MaxRequests == 4

InitialScrollState ==
  [currentPage |-> 0, nextPageToken |-> NoToken, isLoading |-> FALSE,
   hasMoreItems |-> TRUE, errorMessage |-> NoError, totalItems |-> 0]

\* InfiniteScrollComponent.currentState
CurrentState(state) ==
  IF Truthy(state.errorMessage) THEN "error"
  ELSE IF state.isLoading /\ state.totalItems = 0 THEN "loading-initial"
  ELSE IF state.isLoading THEN "loading-more"
  ELSE IF ~state.hasMoreItems THEN "complete"
  ELSE "idle"

\* The state the effect of the constructor and initializeState write from
\* the inputs.
SyncedWithInputs(state, isLoadingNow, more, message, items) ==
  [state EXCEPT !.isLoading = isLoadingNow, !.hasMoreItems = more,
                !.errorMessage = message, !.totalItems = Len(items)]

\* canLoadMore
CanLoadMore(state, items) ==
  /\ state.hasMoreItems
  /\ ~state.isLoading
  /\ ~Truthy(state.errorMessage)
  /\ Len(items) > 0

\* buildPaginationParams (additionalParams are passed through unchanged)
BuildPaginationParams(state) ==
  IF sConfig.paginationType = PageBased
  THEN [page |-> state.currentPage + 1, size |-> sConfig.pageSize, pageToken |-> NoToken]
  ELSE [page |-> 0, size |-> sConfig.pageSize,
        pageToken |-> IF state.nextPageToken = NoToken THEN "" ELSE state.nextPageToken]

InitScroll ==
  /\ sConfig \in [paginationType : {PageBased}, pageSize : PageSizes]
  /\ sTotal \in 0..MaxTotal
  /\ sRecords = <<>>
  /\ sLoading = FALSE
  /\ sHasMore = TRUE
  /\ sErrorMessage = NoError
  /\ sState = InitialScrollState
  /\ sInflight = <<>>
  /\ sMounted = FALSE
  /\ sEvent = "none"
  /\ sResponses = <<>>

\* The records list is not in use.
QuietScroll ==
  /\ sConfig = [paginationType |-> PageBased, pageSize |-> 15]
  /\ sTotal = 0
  /\ sRecords = <<>>
  /\ sLoading = FALSE
  /\ sHasMore = TRUE
  /\ sErrorMessage = NoError
  /\ sState = InitialScrollState
  /\ sInflight = <<>>
  /\ sMounted = FALSE
  /\ sEvent = "none"
  /\ sResponses = <<>>

\* RecordsComponent.onLoadMore, up to the subscription.
OnLoadMore(params) ==
  /\ Len(sResponses) + Len(sInflight) < MaxRequests
  /\ sLoading' = TRUE
  /\ sErrorMessage' = NoError
  /\ sInflight' = Append(sInflight, params)

\* RecordsComponent.ngOnInit (loadInitialData), then the first change
\* detection: the child is created with the inputs as they are now, its
\* effect runs and its ngOnInit calls initializeState.
RecordsNgOnInit ==
  /\ ~sMounted
  /\ sMounted' = TRUE
  /\ OnLoadMore([page |-> 1, size |-> sConfig.pageSize, pageToken |-> NoToken])
  /\ sState' = SyncedWithInputs(InitialScrollState, TRUE, sHasMore, NoError, sRecords)
  /\ sEvent' = "init"
  /\ UNCHANGED <<sConfig, sTotal, sRecords, sHasMore, sResponses>>
  /\ UNCHANGED varsNotScroll

\* The effect of the constructor runs again and copies the inputs into
\* _state.  When Angular schedules it is left open: it may run after any
\* step, or never.
EffectRuns ==
  /\ sMounted
  /\ sState' = SyncedWithInputs(sState, sLoading, sHasMore, sErrorMessage, sRecords)
  /\ UNCHANGED <<sConfig, sTotal, sRecords, sLoading, sHasMore, sErrorMessage,
                 sInflight, sMounted, sEvent, sResponses>>
  /\ UNCHANGED varsNotScroll

\* loadMoreData(), or a scroll sample that passes shouldLoadMore:
\* triggerLoadMore emits loadMore and RecordsComponent.onLoadMore runs.
LoadMoreData ==
  /\ sMounted
  /\ CanLoadMore(sState, sRecords)
  /\ sState' = [sState EXCEPT !.isLoading = TRUE]
  /\ OnLoadMore(BuildPaginationParams(sState))
  /\ sEvent' = "loadMore"
  /\ UNCHANGED <<sConfig, sTotal, sRecords, sHasMore, sMounted, sResponses>>
  /\ UNCHANGED varsNotScroll

Min(a, b) == IF a < b THEN a ELSE b

\* The records the backend serves for a request.
ServedRecords(params) ==
  LET first == (params.page - 1) * params.size + 1
      last == Min(params.page * params.size, sTotal)
  IN [k \in 1..(IF last >= first THEN last - first + 1 ELSE 0) |-> first + k - 1]

\* meta.limit of a response: the page size, or the number of pages.
Limits(params) == {params.size, (sTotal + params.size - 1) \div params.size}

\* Request k settles with a response: the next handler of onLoadMore.
RecordsResponse(k, limit) ==
  /\ k \in 1..Len(sInflight)
  /\ limit \in Limits(sInflight[k])
  /\ LET params == sInflight[k]
         data == ServedRecords(params)
         meta == [total |-> sTotal, page |-> params.page, limit |-> limit]
     IN /\ sRecords' = sRecords \o data
        /\ sHasMore' = (meta.page = meta.limit)
        /\ sResponses' = Append(sResponses,
                                [ok |-> TRUE, params |-> params,
                                 count |-> Len(data), meta |-> meta])
  /\ sLoading' = FALSE
  /\ sInflight' = Remove(sInflight, k)
  /\ sEvent' = "response"
  /\ UNCHANGED <<sConfig, sTotal, sErrorMessage, sState, sMounted>>
  /\ UNCHANGED varsNotScroll

\* Request k settles with a 2xx response whose body has no `data` array,
\* with or without a meta: the next handler of onLoadMore takes [] as the
\* records of the page.
RecordsMalformedResponse(k, withMeta) ==
  /\ k \in 1..Len(sInflight)
  /\ LET params == sInflight[k]
         meta == IF withMeta
                 THEN [total |-> sTotal, page |-> params.page, limit |-> params.size]
                 ELSE [total |-> 0, page |-> 0, limit |-> 0]
     IN /\ sRecords' = sRecords \o <<>>
        /\ sHasMore' = (meta.page = meta.limit)
        /\ sResponses' = Append(sResponses,
                                [ok |-> TRUE, params |-> params, count |-> 0,
                                 meta |-> meta])
  /\ sLoading' = FALSE
  /\ sInflight' = Remove(sInflight, k)
  /\ sEvent' = "malformed"
  /\ UNCHANGED <<sConfig, sTotal, sErrorMessage, sState, sMounted>>
  /\ UNCHANGED varsNotScroll

\* Request k settles with the IApiError: the error handler of onLoadMore.
RecordsFailure(k) ==
  /\ k \in 1..Len(sInflight)
  /\ sErrorMessage' = RecordsLoadError
  /\ sLoading' = FALSE
  /\ sResponses' = Append(sResponses,
                          [ok |-> FALSE, params |-> sInflight[k], count |-> 0,
                           meta |-> [total |-> 0, page |-> 0, limit |-> 0]])
  /\ sInflight' = Remove(sInflight, k)
  /\ sEvent' = "failure"
  /\ UNCHANGED <<sConfig, sTotal, sRecords, sHasMore, sState, sMounted>>
  /\ UNCHANGED varsNotScroll

\* InfiniteScrollComponent.onRetry clears its errorMessage and emits retry;
\* RecordsComponent.onRetry empties the list and loads page 1.
RecordsOnRetry ==
  /\ sMounted
  /\ sState' = [sState EXCEPT !.errorMessage = NoError]
  /\ sRecords' = <<>>
  /\ sHasMore' = TRUE
  /\ OnLoadMore([page |-> 1, size |-> sConfig.pageSize, pageToken |-> NoToken])
  /\ sEvent' = "retry"
  /\ UNCHANGED <<sConfig, sTotal, sMounted, sResponses>>
  /\ UNCHANGED varsNotScroll

NextRecords ==
  \/ RecordsNgOnInit
  \/ EffectRuns
  \/ LoadMoreData
  \/ \E k \in 1..Len(sInflight) : \E limit \in Limits(sInflight[k]) : RecordsResponse(k, limit)
  \/ \E k \in 1..Len(sInflight) : \E withMeta \in BOOLEAN :
       RecordsMalformedResponse(k, withMeta)
  \/ \E k \in 1..Len(sInflight) : RecordsFailure(k)
  \/ RecordsOnRetry

InitSpecRecords == InitScroll /\ QuietRetry /\ QuietDiary /\ QuietPage /\ QuietFavorite /\ QuietAux

SpecRecords == InitSpecRecords /\ [][NextRecords]_vars

(***************************************************************************)
(* InfiniteScrollComponent with token-based pagination.  No component of   *)
(* the application configures it so; its host is modelled by the public    *)
(* interface it has to use: it binds the inputs, listens to loadMore, and  *)
(* calls updatePaginationState with the nextPageToken of each response and *)
(* reset() to start over.  The inputs loading, hasMore and errorMessage    *)
(* keep the values the host bound at creation.                             *)
(***************************************************************************)
\* nextPageToken values of the list responses
Tokens == {"t1", "t2"}

NoMeta == [total |-> 0, page |-> 0, limit |-> 0]

InitScrollToken ==
  /\ sConfig \in [paginationType : {TokenBased}, pageSize : PageSizes]
  /\ sTotal = 0
  /\ sRecords \in {<<>>, <<1>>}
  /\ sLoading = FALSE
  /\ sHasMore \in BOOLEAN
  /\ sErrorMessage = NoError
  /\ sState = InitialScrollState
  /\ sInflight = <<>>
  /\ sMounted = FALSE
  /\ sEvent = "none"
  /\ sResponses = <<>>

\* InfiniteScrollComponent.ngOnInit: initializeState copies the inputs.
ScrollNgOnInit ==
  /\ ~sMounted
  /\ sMounted' = TRUE
  /\ sState' = SyncedWithInputs(InitialScrollState, sLoading, sHasMore,
                                sErrorMessage, sRecords)
  /\ sEvent' = "init"
  /\ UNCHANGED <<sConfig, sTotal, sRecords, sLoading, sHasMore, sErrorMessage,
                 sInflight, sResponses>>
  /\ UNCHANGED varsNotScroll

\* loadMoreData(), or a scroll sample that passes shouldLoadMore:
\* triggerLoadMore marks the state loading and emits loadMore to the host.
TriggerLoadMore ==
  /\ sMounted
  /\ CanLoadMore(sState, sRecords)
  /\ Len(sResponses) + Len(sInflight) < MaxRequests
  /\ sState' = [sState EXCEPT !.isLoading = TRUE]
  /\ sInflight' = Append(sInflight, BuildPaginationParams(sState))
  /\ sEvent' = "loadMore"
  /\ UNCHANGED <<sConfig, sTotal, sRecords, sLoading, sHasMore, sErrorMessage,
                 sMounted, sResponses>>
  /\ UNCHANGED varsNotScroll

\* The response to request k arrives with `count` new items and the token
\* `token`: the host appends the items to dataSource and calls
\* updatePaginationState(token).
UpdatePaginationState(k, count, token) ==
  /\ k \in 1..Len(sInflight)
  /\ sState' = [sState EXCEPT
                  !.currentPage = IF sConfig.paginationType = PageBased
                                  THEN @ + 1 ELSE @,
                  !.nextPageToken = token,
                  !.isLoading = FALSE]
  /\ sRecords' = sRecords \o [i \in 1..count |-> Len(sRecords) + i]
  /\ sResponses' = Append(sResponses,
                          [ok |-> TRUE, params |-> sInflight[k], count |-> count,
                           meta |-> NoMeta, nextPageToken |-> token])
  /\ sInflight' = Remove(sInflight, k)
  /\ sEvent' = "response"
  /\ UNCHANGED <<sConfig, sTotal, sLoading, sHasMore, sErrorMessage, sMounted>>
  /\ UNCHANGED varsNotScroll

\* reset(): the host starts the list over with no request outstanding.
ScrollReset ==
  /\ sMounted
  /\ sInflight = <<>>
  /\ sState' = InitialScrollState
  /\ sEvent' = "reset"
  /\ UNCHANGED <<sConfig, sTotal, sRecords, sLoading, sHasMore, sErrorMessage,
                 sInflight, sMounted, sResponses>>
  /\ UNCHANGED varsNotScroll

\* loadMoreData(): triggerLoadMore when canLoadMore() allows it, and nothing
\* otherwise.  A scroll sample that passes shouldLoadMore takes the same
\* first branch.
ScrollLoadMoreData ==
  IF CanLoadMore(sState, sRecords)
  THEN TriggerLoadMore
  ELSE /\ sMounted
       /\ sEvent' = "loadMoreData"
       /\ UNCHANGED <<sConfig, sTotal, sRecords, sLoading, sHasMore, sErrorMessage,
                      sState, sInflight, sMounted, sResponses>>
       /\ UNCHANGED varsNotScroll

NextScroll ==
  \/ ScrollNgOnInit
  \/ EffectRuns
  \/ ScrollLoadMoreData
  \/ \E k \in 1..Len(sInflight) : \E count \in 0..1 : \E token \in Tokens \cup {NoToken} :
       UpdatePaginationState(k, count, token)
  \/ ScrollReset

InitSpecScroll == InitScrollToken /\ QuietRetry /\ QuietDiary /\ QuietPage /\ QuietFavorite /\ QuietAux

SpecScroll == InitSpecScroll /\ [][NextScroll]_vars

InitSpecPage == InitPage /\ QuietRetry /\ QuietDiary /\ QuietFavorite /\ QuietScroll /\ QuietAux

SpecPage == InitSpecPage /\ [][NextPage]_vars

InitSpecPageFavorites == InitPage /\ QuietRetry /\ QuietDiary /\ QuietFavorite /\ QuietScroll /\ QuietAux

SpecPageFavorites == InitSpecPageFavorites /\ [][NextPageFavorites]_vars

InitSpecDiary == InitDiary /\ QuietRetry /\ QuietPage /\ QuietFavorite /\ QuietScroll /\ QuietAux

SpecDiary == InitSpecDiary /\ [][NextDiary]_vars

InitSpecDiaryFavorites == InitDiary /\ QuietRetry /\ QuietPage /\ QuietFavorite /\ QuietScroll /\ QuietAux

SpecDiaryFavorites == InitSpecDiaryFavorites /\ [][NextDiaryFavorites]_vars

InitSpecLazy ==
  InitLazy /\ QuietNormalize /\ QuietDrive /\ QuietAuth /\ QuietRetry /\ QuietDiary
  /\ QuietPage /\ QuietFavorite /\ QuietScroll

SpecLazy == InitSpecLazy /\ [][NextLazy]_vars

InitSpecNormalize ==
  InitNormalize /\ QuietDrive /\ QuietAuth /\ QuietLazy /\ QuietRetry /\ QuietDiary /\ QuietPage /\ QuietFavorite /\ QuietScroll

SpecNormalize == InitSpecNormalize /\ [][NextNormalize]_vars

InitSpecDrive ==
  InitDrive /\ QuietNormalize /\ QuietAuth /\ QuietLazy /\ QuietRetry /\ QuietDiary /\ QuietPage /\ QuietFavorite /\ QuietScroll

SpecDrive == InitSpecDrive /\ [][NextDrive]_vars

\* The interceptors run under every retry configuration of the service.
RetryConfigured ==
  /\ retryAttempts \in 0..MaxRetryAttempts
  /\ retryDelay = 1
  /\ rOp = "none"
  /\ rPhase = "idle"
  /\ rAttempt = 0
  /\ rCalls = 0
  /\ rHistory = <<>>
  /\ rDelays = <<>>
  /\ rDelivered = <<>>
  /\ rSaved = 0

InitSpecAuth ==
  InitAuth /\ RetryConfigured /\ QuietNormalize /\ QuietDrive /\ QuietLazy /\ QuietDiary /\ QuietPage
  /\ QuietFavorite /\ QuietScroll

SpecAuth == InitSpecAuth /\ [][NextAuth]_vars

InitSpecRetry == InitRetry /\ QuietDiary /\ QuietPage /\ QuietFavorite /\ QuietScroll /\ QuietAux

SpecRetry == InitSpecRetry /\ [][NextRetry]_vars

\* The transport answers every call (at the latest by the request timeout)
\* and a started timer fires.
FairSpecRetry ==
  /\ SpecRetry
  /\ WF_vars(TransportSucceeds \/ \E status \in Statuses : \E body \in Bodies(status) : TransportFails(status, body))
  /\ WF_vars(TimerFires)

(***************************************************************************)
(* Properties of the retry executor.                                       *)
(***************************************************************************)
IsClientErrorStatus(status) == status >= 400 /\ status < 500

\* The transient failures of the claims: no response (0) or a 5xx.
IsTransientStatus(status) == status = 0 \/ status \in 500..599

AllRetryable(h, n) == \A i \in 1..n : IsTransientStatus(h[i])

\* The operations of the client that are plain GET and DELETE requests.
IsGetOrDeleteRequest(op) == op \in {"getAll", "getById", "search", "remove"}

Last(h) == h[Len(h)]

\* C1: for k retryable failures (status 0 or 5xx), k < retryAttempts, the
\* executor of a GET/DELETE has not given up; when the next answer is a
\* success, the success value is the one outcome delivered, after exactly
\* k + 1 transport calls; and every backoff wait leads to the next attempt.
C1_StatePart ==
  IsGetOrDeleteRequest(rOp) =>
    /\ (/\ Len(rHistory) < retryAttempts
        /\ AllRetryable(rHistory, Len(rHistory)))
         => /\ rPhase \in {"inflight", "backoff"}
            /\ rDelivered = <<>>
    /\ (/\ Len(rHistory) >= 1
        /\ Len(rHistory) - 1 < retryAttempts
        /\ AllRetryable(rHistory, Len(rHistory) - 1)
        /\ Is2xx(Last(rHistory)))
         => /\ rPhase = "done"
            /\ rDelivered = <<Success>>
            /\ rCalls = (Len(rHistory) - 1) + 1

C1_RetryThenSuccess ==
  /\ []C1_StatePart
  /\ (rPhase = "backoff") ~> (rPhase = "inflight")

C1_Witness ==
  /\ rOp = "getAll"
  /\ Len(rHistory) = 3
  /\ rHistory[1] = 503 /\ rHistory[2] = 0 /\ rHistory[3] = 200
  /\ retryAttempts = 3
  /\ rDelivered = <<Success>>

\* C2: a failure with status 400-499 ends the request at once: the error is
\* delivered with no retry and no backoff wait after it; as the first
\* answer, after exactly one transport call, whatever the attempt budget.
C2_ClientErrorNotRetried ==
  (rHistory # <<>> /\ IsClientErrorStatus(Last(rHistory))) =>
    /\ rPhase = "done"
    /\ rCalls = Len(rHistory)
    /\ Len(rDelays) = Len(rHistory) - 1
    /\ Len(rDelivered) = 1
    /\ ~rDelivered[1].ok
    /\ rDelivered[1].status = Last(rHistory)
    /\ (IsClientErrorStatus(rHistory[1]) => rCalls = 1 /\ rDelays = <<>>)

C2_Witness ==
  /\ rOp = "getById"
  /\ retryAttempts = MaxRetryAttempts
  /\ rHistory = <<404>>
  /\ rPhase = "done"

\* C3: the executor makes at most retryAttempts retries (retryAttempts + 1
\* transport calls), delivers at most one outcome, surfaces the normalized
\* error of the last failure once the budget is used up, and every started
\* request terminates.
C3_StatePart ==
  /\ rCalls <= retryAttempts + 1
  /\ Len(rDelays) <= retryAttempts
  /\ Len(rDelivered) <= 1
  /\ (rPhase = "done") <=> (Len(rDelivered) = 1)
  /\ (/\ IsGetOrDeleteRequest(rOp)
      /\ Len(rHistory) = retryAttempts + 1
      /\ AllRetryable(rHistory, Len(rHistory)))
       => /\ rPhase = "done"
          /\ ~rDelivered[1].ok
          /\ rDelivered[1].status = Last(rHistory)

C3_BoundedRetriesAndTermination ==
  /\ []C3_StatePart
  /\ (rPhase # "idle") ~> (rPhase = "done")

C3_Witness ==
  /\ rOp = "remove"
  /\ retryAttempts = 2
  /\ rHistory = <<500, 503, 0>>
  /\ rCalls = 3
  /\ rPhase = "done"
  /\ ~rDelivered[1].ok

\* C4 (as claimed): the delay waited before attempt n is retryDelay * 2^n.
C4_DelayBeforeAttemptIsPow2n ==
  \A n \in 1..Len(rDelays) : rDelays[n] = retryDelay * Pow2(n)

\* C4 (amended): attempt 0 runs at once, and the delay waited before attempt
\* n >= 1, that is after the failure of attempt n - 1, is
\* retryDelay * 2^(n-1).
C4_DelayAfterFailedAttempt ==
  /\ \A n \in 1..Len(rDelays) : rDelays[n] = retryDelay * Pow2(n - 1)
  /\ Len(rDelays) = IF rPhase = "backoff" THEN rAttempt + 1 ELSE rAttempt
  /\ (rCalls >= 1 /\ rAttempt = 0 /\ rPhase # "backoff") => rDelays = <<>>

C4_Witness ==
  /\ retryDelay = 2
  /\ rDelays = <<2, 4, 8>>
  /\ rAttempt = 3

\* C5: a POST, PUT or PATCH of the client is never retried: any failure,
\* status 0 and 5xx included, ends it after one transport call; a request
\* that made a second transport call is a GET or a DELETE.
C5_MutatingVerbsNotRetried ==
  rOp # "none" =>
    /\ Verb(rOp) \in {"POST", "PUT", "PATCH"} =>
         /\ rCalls = 1
         /\ rDelays = <<>>
         /\ rPhase # "backoff"
         /\ (rHistory # <<>> => rPhase = "done" /\ Len(rHistory) = 1)
    /\ (rCalls > 1 \/ rDelays # <<>>) => Verb(rOp) \in {"GET", "DELETE"}

C5_Witness ==
  /\ rOp = "bulkUpdate"
  /\ retryAttempts = MaxRetryAttempts
  /\ rHistory = <<503>>
  /\ rPhase = "done"
  /\ rCalls = 1

(***************************************************************************)
(* Properties of the diary page.                                           *)
(***************************************************************************)
\* The phase of the pagination state machine the page is in.
PhaseOf(err, isLoadingNow, items, more) ==
  IF err # NoError THEN "Error"
  ELSE IF isLoadingNow /\ items = <<>> THEN "LoadingInitial"
  ELSE IF isLoadingNow THEN "LoadingMore"
  ELSE IF ~more THEN "Complete"
  ELSE "Idle"

DiaryPhase == PhaseOf(error, loading, records, hasMore)

\* The step is a run of handler `name` of the diary page.
DiaryStepOf(name) == dEvents' = <<dEvents[2], name>>

\* C6: on a diary page there is never more than one list request in flight.
C6_AtMostOneFetchInFlight ==
  /\ Len(dInflight) <= 1
  /\ Len(pInflight) <= 1

\* C7: a requestMore (onScrolled) that runs right after another one, with no
\* completion in between, issues no request and changes neither the page
\* counter nor the phase; the first of the two, when no request is
\* outstanding, issues exactly one.
C7_SecondRequestMoreIsNoOp ==
  [][/\ (dEvents[2] = "scroll" /\ DiaryStepOf("scroll"))
          => /\ dInflight' = dInflight
             /\ currentPage' = currentPage
             /\ DiaryPhase' = DiaryPhase
             /\ records' = records
     /\ (dEvents[2] # "scroll" /\ DiaryStepOf("scroll") /\ dInflight = <<>>)
          => /\ Len(dInflight') = 1
             /\ currentPage' = currentPage
    ]_vars

C7_Witness ==
  /\ dEvents = <<"scroll", "scroll">>
  /\ Len(dInflight) = 1
  /\ ~dInflight[1].isInitial
  /\ dInflight[1].page = currentPage + 1
  /\ records # <<>>

\* A request issued before the last reset settles in this step.
StaleFetchSettles ==
  \E k \in 1..Len(dInflight) :
    /\ dInflight[k].stale
    /\ dInflight' = Remove(dInflight, k)
    /\ (DiaryStepOf("response") \/ DiaryStepOf("failure"))

\* C8: the response of a request issued before a reset, arriving after it,
\* changes neither the items nor currentPage nor the phase.
C8_StaleResponseDiscarded ==
  [][StaleFetchSettles =>
       /\ records' = records
       /\ currentPage' = currentPage
       /\ DiaryPhase' = DiaryPhase]_vars

DiaryResetStep == DiaryStepOf("filter") \/ DiaryStepOf("showAll")

NoDuplicateIds(list) ==
  \A i, j \in 1..Len(list) : i # j => list[i].id # list[j].id

C10_NoDuplicateIds ==
  /\ NoDuplicateIds(records)
  /\ NoDuplicateIds(allRecords)

(***************************************************************************)
(* Properties of the error handling of the lists.                          *)
(***************************************************************************)
\* A list request of the diary page ends in failure in this step.
DiaryFetchFailsStep ==
  /\ DiaryStepOf("failure")
  /\ Len(dInflight') = Len(dInflight) - 1

\* C13: when a list fetch fails for good, the phase becomes Error, the
\* error message is the message of the IApiError of that failure, and the
\* items loaded and the page counter stay as they were.
C13_FailureEntersErrorWithApiMessage ==
  [][DiaryFetchFailsStep =>
       /\ DiaryPhase' = "Error"
       /\ error' = dApiError'.error.message
       /\ records' = records
       /\ currentPage' = currentPage]_vars

\* C14: while the phase is Error the page issues no list fetch on a scroll
\* sample (requestMore); a fetch is issued only by retry or by a reset.
C14_NoFetchWhileErrorButRetryOrReset ==
  [][(DiaryPhase = "Error" /\ Len(dInflight') > Len(dInflight))
       => (DiaryStepOf("retry") \/ DiaryResetStep)]_vars

\* C15: every error delivered by the entity client carries a non-empty
\* message, whatever the status and the body of the failed response, and
\* the diary page in phase Error holds a non-empty error message.
C15_ErrorMessageNonEmpty ==
  /\ \A i \in 1..Len(rDelivered) :
       ~rDelivered[i].ok => rDelivered[i].message # ""
  /\ DiaryPhase = "Error" => error \notin {NoError, ""}

\* retry runs right after a list fetch failed.
RetryAfterFailureStep ==
  /\ dEvents[2] = "failure"
  /\ DiaryPhase = "Error"
  /\ DiaryStepOf("retry")

\* C16 (as claimed): retry keeps the items loaded and issues exactly one
\* fetch, for the page whose fetch failed.
C16_RetryRequestsFailedPage ==
  [][RetryAfterFailureStep =>
       /\ records' = records
       /\ Len(dInflight') = Len(dInflight) + 1
       /\ dInflight'[Len(dInflight')].page = dApiError.page]_vars

\* C16 (amended): retry in phase Error keeps the items loaded and the page
\* counter, clears the error and issues exactly one fetch: an initial load
\* of page 1 under the current filter, whatever page had failed.
C16_RetryReloadsFirstPage ==
  [][(DiaryPhase = "Error" /\ DiaryStepOf("retry")) =>
       /\ records' = records
       /\ currentPage' = currentPage
       /\ error' = NoError
       /\ dInflight = <<>>
       /\ dInflight' = <<NewFetch(TRUE, showOnlyFavorites, 1)>>]_vars

C16_Witness ==
  /\ dEvents = <<"failure", "retry">>
  /\ currentPage = 1
  /\ records # <<>>
  /\ error = NoError
  /\ Len(dInflight) = 1
  /\ dInflight[1].isInitial
  /\ dInflight[1].page = 1

(***************************************************************************)
(* Properties of the records list.                                         *)
(***************************************************************************)
\* The phase the list shows once the inputs have reached the component.
RecordsPhase ==
  CurrentState(SyncedWithInputs(sState, sLoading, sHasMore, sErrorMessage, sRecords))

\* The n-th response received was for page `page` of size `size` and held
\* `count` records with meta.limit = size.
NthResponseIs(n, page, size, count) ==
  /\ Len(sResponses) >= n
  /\ sResponses[n].ok
  /\ sResponses[n].params.page = page
  /\ sResponses[n].params.size = size
  /\ sResponses[n].count = count
  /\ sResponses[n].meta.page = page
  /\ sResponses[n].meta.limit = size

C17_AfterFirstPage ==
  /\ NthResponseIs(1, 1, 10, 10)
  /\ Len(sResponses) = 1
  /\ sInflight = <<>>

C17_AfterSecondPage ==
  /\ NthResponseIs(1, 1, 10, 10)
  /\ NthResponseIs(2, 2, 10, 4)
  /\ Len(sResponses) = 2
  /\ sInflight = <<>>

NthPageReturned(n, page, size, count) ==
  /\ Len(sResponses) >= n
  /\ sResponses[n].ok
  /\ sResponses[n].params.page = page
  /\ sResponses[n].params.size = size
  /\ sResponses[n].count = count

\* The responses so far are the first n of: page 1 with 5 records, page 2
\* with 5 records, page 3 with 3 records, all of size 5.
C18_PagesSoFar(n) ==
  /\ Len(sResponses) = n
  /\ n >= 1 => NthPageReturned(1, 1, 5, 5)
  /\ n >= 2 => NthPageReturned(2, 2, 5, 5)
  /\ n >= 3 => NthPageReturned(3, 3, 5, 3)

\* A request for page 4 is in flight.
C18_FourthPageRequested ==
  \E k \in 1..Len(sInflight) : sInflight[k].page = 4

RecordsResponseStep ==
  /\ sEvent' = "response"
  /\ Len(sResponses') = Len(sResponses) + 1
  /\ sResponses'[Len(sResponses')].ok
  /\ sErrorMessage = NoError

\* C20: a response makes the phase complete when it holds no records or
\* when meta.page has reached meta.limit, and idle when it holds records
\* and meta.page is below meta.limit; once the phase is complete no list
\* request is issued except by starting the list over.
C20_ResponseDecidesPhase ==
  [][/\ RecordsResponseStep =>
          LET r == sResponses'[Len(sResponses')]
          IN /\ (r.count = 0 \/ r.meta.page >= r.meta.limit)
                  => RecordsPhase' = "complete"
             /\ (r.count > 0 /\ r.meta.page < r.meta.limit)
                  => RecordsPhase' = "idle"
     /\ (RecordsPhase = "complete" /\ Len(sInflight') > Len(sInflight))
          => sEvent' = "retry"
    ]_vars

\* The phase the scroll component computes from its own state.
ScrollPhase == CurrentState(sState)

\* A response carrying `token` is handled in this step.
TokenResponseStep(token) ==
  /\ sEvent' = "response"
  /\ Len(sResponses') = Len(sResponses) + 1
  /\ sResponses'[Len(sResponses')].nextPageToken = token

\* C19: with token-based pagination, a response with no nextPageToken makes
\* the phase complete; a response with a token received while the phase
\* was loading-more makes the phase idle, and the next request issued
\* carries that token as its pageToken.
C19_TokenDecidesPhase ==
  [][/\ TokenResponseStep(NoToken) => ScrollPhase' = "complete"
     /\ \A token \in Tokens :
          /\ (TokenResponseStep(token) /\ ScrollPhase = "loading-more")
               => ScrollPhase' = "idle"
          /\ (sEvent = "response" /\ sResponses # <<>>
              /\ sResponses[Len(sResponses)].nextPageToken = token
              /\ sEvent' = "loadMore")
               => sInflight'[Len(sInflight')].pageToken = token
    ]_vars

(***************************************************************************)
(* Properties of the favorite toggles.                                     *)
(***************************************************************************)
\* The last favorite mutation issued fails in this step of the diary page,
\* and its card click was the event just before.
LastToggleFailsAtOnce ==
  /\ dEvents[2] = "toggle"
  /\ DiaryStepOf("toggleFailed")
  /\ dUpdates' = SubSeq(dUpdates, 1, Len(dUpdates) - 1)

\* C11: when the mutation of a toggle fails, the favorite flag of the item
\* is again the value it had before that toggle, also when another toggle
\* of the item was issued in between, and its id is unchanged.
C11_FailedToggleRestoresFlag ==
  pLastFailed # NoFailure =>
    \A k \in 1..Len(allRecords) :
      allRecords[k].id = pLastFailed.id =>
        allRecords[k].isFavorite = pLastFailed.before

\* C12: when the mutation of a toggle fails with no other event since the
\* toggle, the item list (membership, order and flags) is again the list
\* as it was before the toggle.
C12_FailedToggleRevertsCollection ==
  [][LastToggleFailsAtOnce => records' = dListBefore]_vars

(***************************************************************************)
(* Properties of the loading flag.                                         *)
(***************************************************************************)
\* C21: the loading flag of a page is true exactly while a list fetch it
\* issued is outstanding, and false once every issued fetch has settled.
C21_LoadingIffFetchOutstanding ==
  /\ loading <=> dInflight # <<>>
  /\ isLoading <=> pInflight # <<>>

(***************************************************************************)
(* Properties of the scroll samples.                                       *)
(***************************************************************************)
\* The phase of the class-field diary page, which keeps no error state.
PagePhase == PhaseOf(NoError, isLoading, allRecords, hasMoreRecords)

\* C22: a scroll sample within the threshold of the end issues a list
\* fetch if and only if the phase is Idle and the item list is not empty;
\* a sample farther from the end issues none.
C22_ScrollFetchesIffIdleAndNonEmpty ==
  [][/\ pEvent' = "scroll" =>
          (Len(pInflight') > Len(pInflight)
             <=> (PagePhase = "Idle" /\ allRecords # <<>>))
     /\ pEvent' = "scrollFar" => pInflight' = pInflight
    ]_vars

(***************************************************************************)
(* Properties of loadMoreData.                                             *)
(***************************************************************************)
\* loadMoreData() runs in this step.
LoadMoreDataStep == sEvent' \in {"loadMore", "loadMoreData"}

\* C23: loadMoreData() in phase idle issues a fetch and makes the phase
\* loading-initial when the item list is empty and loading-more otherwise.
C23_RequestMoreFromIdle ==
  [][(LoadMoreDataStep /\ ScrollPhase = "idle") =>
       /\ Len(sInflight') = Len(sInflight) + 1
       /\ ScrollPhase' = IF sRecords = <<>> THEN "loading-initial"
                                            ELSE "loading-more"
    ]_vars

(***************************************************************************)
(* Properties of the error normalizer.                                     *)
(***************************************************************************)
\* The default message of a status, as the table of the claim lists it.
DefaultMessageOf(status) ==
  LET table == [s \in {400, 401, 403, 404, 409, 422, 500, 502, 503} |->
                  CASE s = 400 -> "Bad Request"
                    [] s = 401 -> "Unauthorized"
                    [] s = 403 -> "Forbidden"
                    [] s = 404 -> "Not Found"
                    [] s = 409 -> "Conflict"
                    [] s = 422 -> "Unprocessable Entity"
                    [] s = 500 -> "Internal Server Error"
                    [] s = 502 -> "Bad Gateway"
                    [] s = 503 -> "Service Unavailable"]
  IN IF status \in DOMAIN table THEN table[status] ELSE "Unknown Error"

\* The failure normalized last had a response body or none at all, that
\* is, it was not a client-side ErrorEvent.
NormalizedAResponse ==
  /\ nRaw # NoRaw
  /\ nRaw.body.kind # "ErrorEvent"

\* C24: the message of the ApiError is the string `message` of the body
\* when there is one, otherwise the first element of a non-empty `errors`
\* array, otherwise the default of the status ("Unknown Error" for a
\* status without one); the ApiError keeps the status of the response.
C24_MessagePrecedence ==
  NormalizedAResponse =>
    /\ nApiError.status = nRaw.status
    /\ nApiError.message =
         IF nRaw.body.kind = "object" /\ nRaw.body.hasMessage
         THEN nRaw.body.message
         ELSE IF nRaw.body.kind = "object" /\ nRaw.body.errors # <<>>
         THEN Head(nRaw.body.errors)
         ELSE DefaultMessageOf(nRaw.status)

\* A body with a message and an errors array was normalized to its message.
C24_Witness ==
  /\ NormalizedAResponse
  /\ nRaw.status = 422
  /\ nRaw.body.hasMessage
  /\ nRaw.body.errors = <<"first error", "second error">>
  /\ nApiError.message = "server says no"

\* C25: a failure for which no response was received (status 0) becomes
\* an ApiError with status 0 and the fixed connection-error message,
\* whatever the payload of the raw failure is.
C25_NoResponseIsNetworkError ==
  (nRaw # NoRaw /\ nRaw.status = 0) =>
    /\ nApiError.status = 0
    /\ nApiError.message = "Connection error. Please check your internet connection."

(***************************************************************************)
(* Properties of malformed responses.                                      *)
(***************************************************************************)
\* C26: a 2xx response whose body has no `data` array is a failure: the
\* list shows an error afterwards, so the same page cannot be requested
\* again without an error being shown, and the response is not taken as
\* an empty page that ends or continues the list.
C26_MalformedResponseIsAnError ==
  [][sEvent' = "malformed" =>
       /\ sErrorMessage' # NoError
       /\ RecordsPhase' = "error"
    ]_vars

(***************************************************************************)
(* Properties of the request headers.                                      *)
(***************************************************************************)
\* C27: every file upload is sent as multipart form data and every other
\* request with Content-Type application/json, in whatever order the calls
\* of the client are issued and answered.
C27_ContentTypeFollowsOperation ==
  \A i \in 1..Len(aSent) :
    aSent[i].contentType = IF aSent[i].op = "uploadFile"
                           THEN "multipart/form-data"
                           ELSE "application/json"

(***************************************************************************)
(* Properties of the interceptors.                                         *)
(***************************************************************************)
\* A token is present in storage: the item exists and is not empty.
TokenPresent == tToken # "null" /\ tToken # ""

\* A transport call is issued in this step.
CallIssuedStep == tEvent' \in {"request", "retry"} /\ tCalls' = tCalls + 1

\* A 401 answer is handled in this step.
UnauthorizedStep ==
  /\ tEvent' = "failure"
  /\ tLastOutcome'.status = 401
  /\ tPending' # tPending

\* C28: a transport call carries Authorization: Bearer <token> exactly
\* when a token is in storage as it is issued, and then the stored one; a
\* 401 answer removes the stored token and is delivered to the subscriber
\* at once, without a retry.
C28_BearerIffTokenAnd401ClearsIt ==
  [][/\ CallIssuedStep =>
          tLastSent'.authorization =
            IF TokenPresent THEN [scheme |-> "Bearer", token |-> tToken]
                            ELSE [scheme |-> "none", token |-> ""]
     /\ UnauthorizedStep =>
          /\ tToken' = "null"
          /\ tLastOutcome'.delivered
          /\ Len(tPending') = Len(tPending) - 1
    ]_vars

\* After a 401 removed the token and was delivered, a new token was stored
\* and the call issued next carries it.
C28_Witness ==
  /\ tRoute = "/login"
  /\ tLastOutcome = [status |-> 401, delivered |-> TRUE]
  /\ tEvent = "request"
  /\ tToken = "xyz"
  /\ tLastSent.authorization = [scheme |-> "Bearer", token |-> "xyz"]

(***************************************************************************)
(* Properties of the page counter.                                         *)
(***************************************************************************)
\* C29: every list request outstanding asks for a page >= 1 with a size
\* > 0, and the page counter is never below the page loaded last.
C29_PageCounterNeverBelowLoaded ==
  /\ \A k \in 1..Len(pInflight) : pInflight[k].page >= 1
  /\ paginationSize > 0
  /\ paginationPage >= pLastLoaded

(***************************************************************************)
(* Properties of late toggle results.                                      *)
(***************************************************************************)
\* The ids of a list, in order.
IdsOf(list) == [k \in 1..Len(list) |-> list[k].id]

C31_FilterChangeLoadsUnderNewFilter ==
  [][/\ DiaryResetStep =>
          \E k \in 1..Len(dInflight') :
            /\ dInflight'[k].page = 1
            /\ dInflight'[k].favoritesOnly = showOnlyFavorites'
            /\ ~dInflight'[k].stale
     /\ (dInflight' = <<>> /\ showOnlyFavorites') =>
          \A k \in 1..Len(records') : records'[k].id \in backendFav'
    ]_vars

\* The first k pages of the backend's records, in order.
FirstPages(k, size, total) ==
  [i \in 1..(IF k * size < total THEN k * size ELSE total) |-> i]

C33_SettledFlagEqualsBackend ==
  (dUpdates = <<>> /\ dInflight = <<>>) =>
    \A k \in 1..Len(records) :
      records[k].isFavorite <=> records[k].id \in backendFav

(***************************************************************************)
(* Properties of downloadFile.                                             *)
(***************************************************************************)
\* C34: a downloadFile makes exactly one transport call and never waits for
\* a retry; a failure, status 0 and 5xx included, is delivered at once as
\* the normalized error of that answer, and the blob is saved exactly when
\* the call succeeded.
C34_DownloadIsOneCallSavedOnSuccess ==
  rOp = "downloadFile" =>
    /\ rCalls = 1
    /\ rAttempt = 0
    /\ rDelays = <<>>
    /\ rPhase \in {"inflight", "done"}
    /\ rPhase = "inflight" => (rHistory = <<>> /\ rDelivered = <<>> /\ rSaved = 0)
    /\ rPhase = "done" =>
         /\ Len(rHistory) = 1
         /\ Len(rDelivered) = 1
         /\ IF rHistory[1] \in 200..299
            THEN rDelivered[1].ok /\ rSaved = 1
            ELSE /\ ~rDelivered[1].ok
                 /\ rDelivered[1].status \in {0, rHistory[1]}
                 /\ rSaved = 0

C34_Witness ==
  /\ rOp = "downloadFile"
  /\ retryAttempts = MaxRetryAttempts
  /\ rPhase = "done"
  /\ rHistory = <<503>>
  /\ ~rDelivered[1].ok
  /\ rSaved = 0

(***************************************************************************)
(* Properties of the photos screen and its client.                         *)
(***************************************************************************)
\* C35: a response whose ok flag is false is never returned as a result of
\* kind "ok", whether getGeneralApiProblem names a problem for it or not.
C35_OkResultOnlyForOkResponse ==
  (aLastReturn.op # "none" /\ ~aLastReturn.ok) => aLastReturn.kind # "ok"

\* A listFiles call is outstanding.
ListFilesOutstanding == \E k \in 1..Len(aPending) : aPending[k].op = "listFiles"

\* C36: isLoading is true while a listFiles call is outstanding, and when
\* the last outstanding one settles the photos shown do not come from a
\* call issued before the one they came from until then.
C36_LatestListWinsAndLoadingCoversAll ==
  [][/\ ListFilesOutstanding' => hIsLoading'
     /\ ~ListFilesOutstanding' => hPhotosFrom' >= hPhotosFrom
    ]_vars

\* C37: every deleteFile request goes back to a press of the delete button
\* of a photo.
C37_DeleteOnlyOnPress ==
  \A i \in 1..Len(aSent) :
    aSent[i].op = "deleteFile" => aSent[i].cause = "press"

(***************************************************************************)
(* Properties of the lazy-load list.                                       *)
(***************************************************************************)
\* The step emits onLoadMore.
LazyEmits == zEmitted' = zEmitted + 1

\* The host has been served every record of its data source and has bound
\* them, and no fetch is outstanding.
LazyAllDelivered ==
  /\ zAnswered
  /\ zFetching = <<>>
  /\ zTotalRecords = zBackend
  /\ Len(zItems) >= zBackend

\* C38: onLoadMore is emitted only by a lazy-load event that finds
\* state.loading false and state.hasMore true, and state.loading is true
\* after it; the second of two lazy-load events in a row emits nothing;
\* state.hasMore is false exactly when totalRecords > 0 and the items are
\* at least that many; and once the whole of a finite data set has been
\* delivered, a lazy-load event emits nothing.
C38_LazyLoadEmitsOncePerLoadAndStops ==
  [][/\ LazyEmits =>
          (zEvent' = "lazyLoad" /\ ~zState.loading /\ zState.hasMore /\ zState'.loading)
     /\ (zEvent = "lazyLoad" /\ zEvent' = "lazyLoad") => ~LazyEmits
     /\ zMounted' =>
          (~zState'.hasMore <=> (zTotalRecords' > 0 /\ Len(zItems') >= zTotalRecords'))
     /\ (zEvent' = "lazyLoad" /\ LazyAllDelivered) => ~LazyEmits
    ]_vars

====
